---- MODULE Spec2Model ----
(***************************************************************************)
(* Voices from History: the session coordinator of App.tsx (handleSubmit   *)
(* and the buttons that change the session state) and the service layer    *)
(* of services/geminiService.ts (withRetry, researchLocationAndDate,       *)
(* generateDialogueAudio, generateCharacterAvatar).                        *)
(*                                                                         *)
(* JavaScript strings are TLA+ strings; String.prototype.includes is the   *)
(* substring search Includes.  A JavaScript value that may be null is a    *)
(* record: Null, or a record with its own kind.  Every await on a remote   *)
(* call or a timer is a step; the code between two awaits is one action.   *)
(***************************************************************************)
EXTENDS Integers, Sequences, FiniteSets, TLC

VARIABLES
    loadingStep,   \* App.tsx:14
    scenario,      \* App.tsx:15
    audioBuffer,   \* App.tsx:16
    error,         \* App.tsx:17
    subs,          \* the invocations of handleSubmit so far, oldest first
    rt,            \* one invocation of withRetry, run on its own
    rtArgs,        \* the arguments rt was invoked with
    opLog,         \* how the operation given to rt settled, per invocation
    rs,            \* one invocation of researchLocationAndDate, run on its own
    ga,            \* one invocation of generateDialogueAudio, run on its own
    nz,            \* one run of the normalization of a research payload
    sm,            \* one run of the collection of the sources (sourcesMap)
    xj             \* one call of extractJSON

vars == <<loadingStep, scenario, audioBuffer, error, subs, rt, rtArgs, opLog,
          rs, ga, nz, sm, xj>>

sessionVars == <<loadingStep, scenario, audioBuffer, error, subs>>
retryVars == <<rt, rtArgs, opLog>>
unitVars == <<rs, ga, nz, sm, xj>>

---------------------------------------------------------------------------
(* Bounds of the model. *)

\* The largest retry count withRetry is invoked with when run on its own.
MaxRetriesArg == 3
\* How many invocations of handleSubmit have a call running at one time, the
\* one being submitted included.
MaxSubmissions == 2
\* How many of them ask for the portraits of the characters.
MaxPortraitSubmissions == 1

---------------------------------------------------------------------------
(* Values. *)

Null == [kind |-> "null"]

Str(s) == [kind |-> "string", s |-> s]

\* s.includes(t)
Includes(s, t) ==
    \E i \in 0..(Len(s) - Len(t)) : SubSeq(s, i + 1, i + Len(t)) = t

\* An Error object: status and code are 0 where the object has none.
Err(status, code, message) ==
    [kind |-> "error", status |-> status, code |-> code, message |-> message]

\* The failures a remote call is let to end with: a quota error by its
\* status, by its code and by each pattern of its message, and two that are
\* no quota error, one of them with no message.
ServiceErrors ==
    { Err(429, 0, "Too Many Requests"),
      Err(0, 429, ""),
      Err(0, 0, "got 429"),
      Err(0, 0, "quota exceeded"),
      Err(0, 0, "RESOURCE_EXHAUSTED"),
      Err(500, 0, "Internal error"),
      Err(0, 0, "") }

---------------------------------------------------------------------------
(* withRetry *)

MAX_RETRIES == 3
INITIAL_DELAY_MS == 2000

\* The entries of a trace: 0 for an invocation of the operation, the delay
\* for a timer.
CallEv == 0
WaitEv(ms) == ms

isQuotaError(e) ==
    \/ e.status = 429
    \/ e.code = 429
    \/ /\ e.message # ""
       /\ \/ Includes(e.message, "429")
          \/ Includes(e.message, "quota")
          \/ Includes(e.message, "RESOURCE_EXHAUSTED")

\* withRetry(operation, retries, delay) up to its first await: the operation
\* is invoked at once.  trace lists the invocations of the operation and the
\* timers set, in order.
RetryStart(retries, delay) ==
    [st |-> "calling", retries |-> retries, delay |-> delay,
     trace |-> <<CallEv>>, res |-> Null]

ShouldRetry_AnyError(r, e) == r.retries > 0
ShouldRetry_OneMore(r, e) == isQuotaError(e) /\ r.retries >= 0

\* setTimeout(resolve, delay) is set only for a quota error with retries left.
ShouldRetry(r, e) == isQuotaError(e) /\ r.retries > 0

\* The promise of operation() settles with o: the value is returned, or the
\* error is thrown, or a timer of r.delay is set.
RetrySettle(r, o) ==
    IF o.ok
        THEN [r EXCEPT !.st = "returned", !.res = o.val]
        ELSE IF ShouldRetry(r, o.val)
            THEN [r EXCEPT !.st = "waiting",
                           !.trace = Append(@, WaitEv(r.delay))]
            ELSE [r EXCEPT !.st = "thrown", !.res = o.val]

NextDelay_Same(d) == d

\* The delay after a wait of d.
NextDelay(d) == d * 2

\* The timer fires: withRetry(operation, retries - 1, delay * 2).
RetryTimer(r) ==
    [r EXCEPT !.st = "calling", !.retries = r.retries - 1,
              !.delay = NextDelay(r.delay), !.trace = Append(@, CallEv)]

Settled(r) == r.st \in {"returned", "thrown"}

Calls(trace) == Len(SelectSeq(trace, LAMBDA e : e = CallEv))
WaitsOf(trace) == SelectSeq(trace, LAMBDA e : e # CallEv)

Ok(v) == [ok |-> TRUE, val |-> v]
Fail(e) == [ok |-> FALSE, val |-> e]

---------------------------------------------------------------------------
(* Strings: what the service layer does to the text of a line. *)

Ch(s, i) == SubSeq(s, i, i)

WhiteSpace == {" ", "\t", "\n", "\r"}

UpperCase == "ABCDEFGHIJKLMNOPQRSTUVWXYZ"
LowerCase == "abcdefghijklmnopqrstuvwxyz"

\* s.trim()
Trim(s) ==
    LET keep == {i \in 1..Len(s) : Ch(s, i) \notin WhiteSpace}
    IN  IF keep = {} THEN ""
        ELSE LET a == CHOOSE i \in keep : \A j \in keep : i <= j
                 b == CHOOSE i \in keep : \A j \in keep : j <= i
             IN  SubSeq(s, a, b)

\* The place of the first "*" after place i of s, or 0.
NextStar(s, i) ==
    LET stars == {j \in (i + 1)..Len(s) : Ch(s, j) = "*"}
    IN  IF stars = {} THEN 0 ELSE CHOOSE j \in stars : \A k \in stars : j <= k

RECURSIVE StripFrom(_, _)
\* s.replace(/\*[^*]+\*/g, '') from place i on: a "*", one character or more
\* that is no "*", and a "*" are dropped.
StripFrom(s, i) ==
    IF i > Len(s) THEN ""
    ELSE IF Ch(s, i) = "*" /\ NextStar(s, i) >= i + 2
        THEN StripFrom(s, NextStar(s, i) + 1)
        ELSE Ch(s, i) \o StripFrom(s, i + 1)

StripActions(s) == StripFrom(s, 1)

---------------------------------------------------------------------------
(* The scenarios researchLocationAndDate returns. *)

Character(name, gender, voice, visualDescription) ==
    [name |-> name, gender |-> gender, voice |-> voice,
     visualDescription |-> visualDescription, avatarUrl |-> Null]

Line(speaker, text, translation) ==
    [speaker |-> speaker, text |-> text, translation |-> translation]

Scenario(context, characters, script) ==
    [kind |-> "scenario", context |-> context, characters |-> characters,
     script |-> script]

\* Two described characters and a script that renders in both languages; a
\* second character with no visualDescription and a native text that is a
\* stage direction only; and no script at all.
ResearchScenarios ==
    { Scenario("Timbuktu, 1324",
               <<Character("Ana", "female", "Kore", "a trader"),
                 Character("Luis", "male", "Puck", "a scribe")>>,
               <<Line("Ana", "Hola *rie*", "Hello"),
                 Line("Luis", "Paz", "Peace")>>),
      Scenario("Kyoto, 1000",
               <<Character("Sei", "female", "Aoede", "a poet"),
                 Character("Ito", "male", "Fenrir", "")>>,
               <<Line("Ito", "*sighs*", "So it is")>>),
      Scenario("Agra, 1650",
               <<Character("Speaker 1", "male", "Puck", "a mason"),
                 Character("Speaker 2", "female", "Kore", "a gardener")>>,
               <<>>) }

---------------------------------------------------------------------------
(* researchLocationAndDate: what follows the research call. *)

NewError(message) == Err(0, 0, message)

\* What the research service answers: a safety block, or a text that is
\* empty, holds no brace pair, holds a span that does not parse, or holds the
\* payload of a scenario.
ResearchResponses ==
    {[kind |-> "research", finishReason |-> "SAFETY", text |-> "empty",
      scenario |-> Null]}
    \cup {[kind |-> "research", finishReason |-> "SAFETY", text |-> "object",
           scenario |-> CHOOSE sc \in ResearchScenarios : sc.script = <<>>]}
    \cup {[kind |-> "research", finishReason |-> "STOP", text |-> t,
           scenario |-> Null] : t \in {"empty", "nobrace", "invalid"}}
    \cup {[kind |-> "research", finishReason |-> "STOP", text |-> "object",
           scenario |-> sc] : sc \in ResearchScenarios}

ResearchBody_ExtractsFirst(resp) ==
    IF resp.text = "nobrace"
        THEN Fail(NewError("No JSON object found in response."))
    ELSE IF resp.text = "invalid"
        THEN Fail(NewError("Model returned invalid JSON format."))
    ELSE IF resp.text = "empty"
        THEN Fail(NewError("Empty response from model."))
    ELSE IF resp.finishReason = "SAFETY"
        THEN Fail(NewError("The request was blocked by safety filters. Please try a different location or topic."))
    ELSE Ok(resp.scenario)

\* The try block after the call returned: the scenario, or the error thrown.
ResearchBody(resp) ==
    IF resp.finishReason = "SAFETY"
        THEN Fail(NewError("The request was blocked by safety filters. Please try a different location or topic."))
    ELSE IF resp.text = "nobrace"
        THEN Fail(NewError("No JSON object found in response."))
    ELSE IF resp.text = "invalid"
        THEN Fail(NewError("Model returned invalid JSON format."))
    ELSE IF resp.text = "empty"
        THEN Fail(NewError("Empty response from model."))
    ELSE Ok(resp.scenario)

\* The catch block: the error researchLocationAndDate throws for a failure.
ResearchCatch(e) ==
    IF \/ Includes(e.message, "429")
       \/ Includes(e.message, "quota")
       \/ Includes(e.message, "RESOURCE_EXHAUSTED")
        THEN NewError("The system is currently busy (Quota Exceeded). Please try again in a moment.")
        ELSE NewError("Research failed: " \o e.message)

\* The outcome of researchLocationAndDate once its call has settled.
ResearchResult(call) ==
    IF call.st = "thrown" THEN Fail(ResearchCatch(call.res))
    ELSE LET b == ResearchBody(call.res)
         IN  IF b.ok THEN b ELSE Fail(ResearchCatch(b.val))

---------------------------------------------------------------------------
(* generateDialogueAudio *)

NoCall == [st |-> "none"]

safeNames == <<"Speaker A", "Speaker B">>

\* safeNames[index] || `Speaker ${String.fromCharCode(65 + index)}`, the index
\* counted from 1.
SafeNameAt(index) ==
    IF index <= Len(safeNames) THEN safeNames[index]
    ELSE "Speaker " \o Ch(UpperCase, index)

\* speakerVoiceConfigs: one entry for each character, in order.
SpeakerVoiceConfigs(sc) ==
    [index \in 1..Len(sc.characters) |->
        [speaker |-> SafeNameAt(index), voiceName |-> sc.characters[index].voice]]

SafeName_DisplayName(sc, speaker) == speaker

\* charToSafeName.get(speaker) || safeNames[0]; the second character's entry
\* is set last.
SafeName(sc, speaker) ==
    IF speaker = sc.characters[2].name THEN "Speaker B"
    ELSE "Speaker A"

RECURSIVE DialogueFrom(_, _, _)
DialogueFrom(sc, useTranslation, i) ==
    IF i > Len(sc.script) THEN ""
    ELSE LET line == sc.script[i]
             textContent == IF useTranslation THEN line.translation ELSE line.text
             cleanText == Trim(StripActions(textContent))
         IN  (IF cleanText # ""
                 THEN SafeName(sc, line.speaker) \o ": " \o cleanText \o "\n"
                 ELSE "")
             \o DialogueFrom(sc, useTranslation, i + 1)

\* The transcripts of the scenarios of research, rendered once.
Rendered ==
    [sc \in ResearchScenarios |-> [t \in BOOLEAN |-> DialogueFrom(sc, t, 1)]]

\* dialogueText of performGeneration(useTranslation)
DialogueText(sc, useTranslation) ==
    IF sc \in ResearchScenarios THEN Rendered[sc][useTranslation]
    ELSE DialogueFrom(sc, useTranslation, 1)

\* What the speech service answers to a transcript: the audio of it, or no
\* audio and a finish reason ("" where the response has none).
SpeechResponses(text) ==
    {[kind |-> "speech", data |-> Str(text), finishReason |-> "STOP"]}
    \cup {[kind |-> "speech", data |-> Null, finishReason |-> f] :
            f \in {"SAFETY", "OTHER", ""}}

\* decodeAudioData(decodeBase64(base64Audio), audioContext, 24000, 1)
DecodeAudio(data) ==
    [kind |-> "AudioBuffer", of |-> data.s, sampleRate |-> 24000]

GenerationResult_NoSafetyCase(call) ==
    IF call.st = "thrown" THEN Fail(call.res)
    ELSE IF call.res.data # Null THEN Ok(DecodeAudio(call.res.data))
    ELSE Fail(NewError("No audio data returned from the model (Finish Reason: "
                       \o (IF call.res.finishReason = "" THEN "UNKNOWN"
                           ELSE call.res.finishReason) \o ")."))

\* performGeneration after its call settled: the buffer, or the error thrown.
GenerationResult(call) ==
    IF call.st = "thrown" THEN Fail(call.res)
    ELSE IF call.res.data # Null THEN Ok(DecodeAudio(call.res.data))
    ELSE IF call.res.finishReason = "SAFETY"
        THEN Fail(NewError("Audio generation was blocked by safety filters."))
    ELSE Fail(NewError("No audio data returned from the model (Finish Reason: "
                       \o (IF call.res.finishReason = "" THEN "UNKNOWN"
                           ELSE call.res.finishReason) \o ")."))

EmptyDialogue == NewError("Dialogue text is empty.")

\* The error generateDialogueAudio throws when the fallback failed with e.
AudioFailed(e) == NewError("Audio generation failed: " \o e.message)

NoAudio == [st |-> "notStarted", text |-> "", call |-> NoCall, res |-> Null]

AudioFallback_GivesUp(sc, a) ==
    [a EXCEPT !.st = "rejected", !.text = "", !.call = NoCall,
              !.res = AudioFailed(EmptyDialogue)]

\* performGeneration(true) up to its first await, in the catch block of
\* generateDialogueAudio.
AudioFallback(sc, a) ==
    LET t == DialogueText(sc, TRUE)
    IN  IF Trim(t) = ""
            THEN [a EXCEPT !.st = "rejected", !.text = "", !.call = NoCall,
                           !.res = AudioFailed(EmptyDialogue)]
            ELSE [a EXCEPT !.st = "fallback", !.text = t,
                           !.call = RetryStart(MAX_RETRIES, INITIAL_DELAY_MS)]

AudioBegin_SendsEmpty(sc) ==
    [NoAudio EXCEPT !.st = "native", !.text = DialogueText(sc, FALSE),
                    !.call = RetryStart(MAX_RETRIES, INITIAL_DELAY_MS)]

\* generateDialogueAudio(sc) up to its first await: performGeneration(false).
AudioBegin(sc) ==
    LET t == DialogueText(sc, FALSE)
    IN  IF Trim(t) = ""
            THEN AudioFallback(sc, NoAudio)
            ELSE [NoAudio EXCEPT !.st = "native", !.text = t,
                                 !.call = RetryStart(MAX_RETRIES, INITIAL_DELAY_MS)]

AudioAfter_KeepsTrying(sc, a, c) ==
    IF ~Settled(c) THEN [a EXCEPT !.call = c]
    ELSE LET g == GenerationResult(c)
         IN  IF g.ok
                 THEN [a EXCEPT !.st = "resolved", !.call = NoCall, !.res = g.val]
             ELSE IF a.st = "native" THEN AudioFallback(sc, a)
             ELSE IF g.val.message = "" THEN AudioFallback(sc, [a EXCEPT !.st = "again"])
             ELSE [a EXCEPT !.st = "rejected", !.call = NoCall,
                            !.res = AudioFailed(g.val)]

\* The call of the running attempt became c.
AudioAfter(sc, a, c) ==
    IF ~Settled(c) THEN [a EXCEPT !.call = c]
    ELSE LET g == GenerationResult(c)
         IN  IF g.ok
                 THEN [a EXCEPT !.st = "resolved", !.call = NoCall, !.res = g.val]
             ELSE IF a.st = "native" THEN AudioFallback(sc, a)
             ELSE [a EXCEPT !.st = "rejected", !.call = NoCall,
                            !.res = AudioFailed(g.val)]

---------------------------------------------------------------------------
(* generateCharacterAvatar *)

IMAGE_RETRIES == 2

\* The failures the speech call and the image call are let to end with.
SpeechErrors ==
    {Err(429, 0, "Too Many Requests"), Err(500, 0, "Internal error"), Err(0, 0, "")}
ImageErrors ==
    {Err(429, 0, "Too Many Requests"), Err(500, 0, "Internal error")}

\* The payload the image service answers the call for character i with.
ImageOf(i) == IF i = 1 THEN "QUJD" ELSE "REVG"

\* What the image service answers the call for character i: an inline image,
\* or none.
ImageResponses(i) ==
    {[kind |-> "image", inlineData |-> Str(ImageOf(i)),
      finishReason |-> "STOP"]}
    \cup {[kind |-> "image", inlineData |-> Null, finishReason |-> f] :
            f \in {"STOP", "SAFETY"}}

AvatarResult_LeaksError(call) ==
    IF call.st = "thrown" THEN call.res
    ELSE IF call.res.inlineData # Null
        THEN Str("data:image/png;base64," \o call.res.inlineData.s)
    ELSE Null

\* What generateCharacterAvatar returns once its call has settled.
AvatarResult(call) ==
    IF call.st = "thrown" THEN Null
    ELSE IF call.res.inlineData # Null
        THEN Str("data:image/png;base64," \o call.res.inlineData.s)
    ELSE Null

\* How the call ended: with an image, with a response that holds none, or
\* with an error.
AvatarGot(call) ==
    IF call.st = "thrown" THEN "error"
    ELSE IF call.res.inlineData # Null THEN "image"
    ELSE "none"

AvatarBegin_FullBudget(char) ==
    IF char.visualDescription # ""
        THEN [st |-> "running",
              call |-> RetryStart(MAX_RETRIES, INITIAL_DELAY_MS),
              got |-> "", url |-> Null]
        ELSE [st |-> "skipped", call |-> NoCall, got |-> "", url |-> Null]

\* One element of scenarioData.characters.map(...) up to its first await.
AvatarBegin(char) ==
    IF char.visualDescription # ""
        THEN [st |-> "running",
              call |-> RetryStart(IMAGE_RETRIES, INITIAL_DELAY_MS),
              got |-> "", url |-> Null]
        ELSE [st |-> "skipped", call |-> NoCall, got |-> "", url |-> Null]

\* The call of a running avatar became c.
AvatarAfter(v, c) ==
    IF ~Settled(c) THEN [v EXCEPT !.call = c]
    ELSE [v EXCEPT !.st = "done", !.call = NoCall, !.got = AvatarGot(c),
                   !.url = AvatarResult(c)]

NoAvatar == [st |-> "notStarted", call |-> NoCall, got |-> "", url |-> Null]

\* An avatar whose result nothing can read any more.
GoneAvatar == [st |-> "gone", call |-> NoCall, got |-> "", url |-> Null]

---------------------------------------------------------------------------
(* The session: App.tsx.  location and date reach only the prompt of the   *)
(* research call and are left out; so is the theme.  An element of subs is *)
(* one invocation of handleSubmit: its place in the function, its locals   *)
(* and the promises it started.  A call that has settled and whose result  *)
(* has been read is NoCall.                                                *)

NewSubmission_MediaFirst(generateImages) ==
    [pc |-> "researching", generateImages |-> generateImages,
     research |-> RetryStart(MAX_RETRIES, INITIAL_DELAY_MS),
     researched |-> FALSE,
     scenarioData |-> Null,
     audio |-> [NoAudio EXCEPT !.st = "native", !.text = "Speaker A: Hola\n",
                               !.call = RetryStart(MAX_RETRIES, INITIAL_DELAY_MS)],
     avatars |-> <<NoAvatar, NoAvatar>>]

\* handleSubmit(location, date, generateImages) as far as its first await.
NewSubmission(generateImages) ==
    [pc |-> "researching", generateImages |-> generateImages,
     research |-> RetryStart(MAX_RETRIES, INITIAL_DELAY_MS),
     researched |-> FALSE,
     scenarioData |-> Null,
     audio |-> NoAudio,
     avatars |-> <<NoAvatar, NoAvatar>>]

\* An invocation that has returned holds no locals: what is left of it are
\* the image calls still running.  One that has not returned keeps them.  researched tells whether the await of
\* researchLocationAndDate had returned a scenario.
Collected(sub) ==
    IF sub.pc \in {"researching", "generating"} THEN sub
    ELSE [pc |-> sub.pc, generateImages |-> sub.generateImages,
          research |-> NoCall, researched |-> sub.researched,
          scenarioData |-> Null, audio |-> NoAudio,
          avatars |-> [i \in 1..2 |->
                         IF sub.avatars[i].st \in {"running", "notStarted"}
                             THEN sub.avatars[i] ELSE GoneAvatar]]

FormShown_Always == TRUE

\* The input form is rendered.
FormShown == scenario = Null \/ loadingStep # "idle"

SubmitEnabled_Always == TRUE

SubmitEnabled_WhileResearching == loadingStep # "generating_media"

\* The submit button is not disabled: isLoading is loadingStep !== 'idle'.
SubmitEnabled == loadingStep = "idle"

\* imagesPromise has resolved.
ImagesDone(sub) ==
    \/ ~sub.generateImages
    \/ \A i \in 1..2 : sub.avatars[i].st \in {"skipped", "done"}

\* What imagesPromise resolves with: avatarUrl is url || undefined.
ScenarioWithImages(sub) ==
    IF ~sub.generateImages THEN sub.scenarioData
    ELSE [sub.scenarioData EXCEPT !.characters =
            [i \in 1..2 |->
                IF sub.avatars[i].st = "done"
                    THEN [sub.scenarioData.characters[i] EXCEPT
                            !.avatarUrl = sub.avatars[i].url]
                    ELSE sub.scenarioData.characters[i]]]

AllFulfilled_AudioOnly(sub) == sub.audio.st = "resolved"

\* Promise.all([audioPromise, imagesPromise]) has been fulfilled.
AllFulfilled(sub) == sub.audio.st = "resolved" /\ ImagesDone(sub)

AnyRejected_OnceImagesDone(sub) ==
    sub.audio.st = "rejected" /\ ImagesDone(sub)

\* Promise.all([audioPromise, imagesPromise]) has been rejected.
AnyRejected(sub) == sub.audio.st = "rejected"

\* err.message || "An unexpected error occurred."
ErrorText(e) ==
    IF e.message = "" THEN "An unexpected error occurred." ELSE e.message

Caught_NoError(s, sub, e) ==
    /\ loadingStep' = "idle"
    /\ subs' = [subs EXCEPT ![s] = Collected([sub EXCEPT !.pc = "failed"])]
    /\ UNCHANGED <<scenario, audioBuffer, error>>

Caught_StaysBusy(s, sub, e) ==
    /\ error' = Str(ErrorText(e))
    /\ subs' = [subs EXCEPT ![s] = Collected([sub EXCEPT !.pc = "failed"])]
    /\ UNCHANGED <<loadingStep, scenario, audioBuffer>>

\* The catch block of handleSubmit, for the error e.
Caught(s, sub, e) ==
    /\ error' = Str(ErrorText(e))
    /\ loadingStep' = "idle"
    /\ subs' = [subs EXCEPT ![s] = Collected([sub EXCEPT !.pc = "failed"])]
    /\ UNCHANGED <<scenario, audioBuffer>>

Merged_StaysBusy(s, sub) ==
    /\ audioBuffer' = sub.audio.res
    /\ scenario' = ScenarioWithImages(sub)
    /\ subs' = [subs EXCEPT ![s] = [sub EXCEPT !.pc = "done"]]
    /\ UNCHANGED <<loadingStep, error>>

Merged_DropsAudio(s, sub) ==
    /\ audioBuffer' = Null
    /\ scenario' = ScenarioWithImages(sub)
    /\ loadingStep' = "idle"
    /\ subs' = [subs EXCEPT ![s] = [sub EXCEPT !.pc = "done"]]
    /\ UNCHANGED error

\* The lines after the await of Promise.all.
Merged(s, sub) ==
    /\ audioBuffer' = sub.audio.res
    /\ scenario' = ScenarioWithImages(sub)
    /\ loadingStep' = "idle"
    /\ subs' = [subs EXCEPT ![s] = [sub EXCEPT !.pc = "done"]]
    /\ UNCHANGED error

\* A promise that invocation s started has settled, and sub is the invocation
\* after it: handleSubmit goes on if it is at the await of Promise.all and
\* that has settled.
Resume(s, sub) ==
    IF sub.pc = "generating" /\ AnyRejected(sub)
        THEN Caught(s, sub, sub.audio.res)
    ELSE IF sub.pc = "generating" /\ AllFulfilled(sub)
        THEN Merged(s, sub)
    ELSE /\ subs' = [subs EXCEPT ![s] = sub]
         /\ UNCHANGED <<loadingStep, scenario, audioBuffer, error>>

\* The invocation has not returned, or a call it started is still running.
Live(sub) ==
    \/ sub.pc \in {"researching", "generating"}
    \/ \E i \in 1..2 : sub.avatars[i].st = "running"

\* The invocations that are left when the form is submitted again.
LiveSubs == SelectSeq(subs, Live)

Portraits == Len(SelectSeq(LiveSubs, LAMBDA sub : sub.generateImages))

Submit_KeepsError ==
    /\ FormShown
    /\ SubmitEnabled
    /\ Len(LiveSubs) < MaxSubmissions
    /\ \E generateImages \in BOOLEAN :
          /\ generateImages => Portraits < MaxPortraitSubmissions
          /\ subs' = Append([i \in 1..Len(LiveSubs) |-> Collected(LiveSubs[i])],
                            NewSubmission(generateImages))
    /\ loadingStep' = "researching"
    /\ scenario' = Null
    /\ audioBuffer' = Null
    /\ UNCHANGED <<error, retryVars, unitVars>>

\* The form is submitted: InputForm's handleSubmit calls App's.
Submit ==
    /\ FormShown
    /\ SubmitEnabled
    /\ Len(LiveSubs) < MaxSubmissions
    /\ \E generateImages \in BOOLEAN :
          /\ generateImages => Portraits < MaxPortraitSubmissions
          /\ subs' = Append([i \in 1..Len(LiveSubs) |-> Collected(LiveSubs[i])],
                            NewSubmission(generateImages))
    /\ loadingStep' = "researching"
    /\ error' = Null
    /\ scenario' = Null
    /\ audioBuffer' = Null
    /\ UNCHANGED <<retryVars, unitVars>>

MediaStarted_AlwaysAvatars(sub, sc) ==
    [sub EXCEPT !.pc = "generating",
                !.research = NoCall,
                !.researched = TRUE,
                !.scenarioData = sc,
                !.audio = AudioBegin(sc),
                !.avatars = [i \in 1..2 |-> AvatarBegin(sc.characters[i])]]

\* Step 2 of handleSubmit as far as the await of Promise.all: both branches
\* are started.
MediaStarted(sub, sc) ==
    [sub EXCEPT !.pc = "generating",
                !.research = NoCall,
                !.researched = TRUE,
                !.scenarioData = sc,
                !.audio = AudioBegin(sc),
                !.avatars = IF sub.generateImages
                               THEN [i \in 1..2 |-> AvatarBegin(sc.characters[i])]
                               ELSE @]

\* The research call of invocation s settles.
ResearchSettles(s) ==
    /\ subs[s].pc = "researching"
    /\ subs[s].research.st = "calling"
    /\ \E o \in {Ok(r) : r \in ResearchResponses}
                \cup {Fail(e) : e \in ServiceErrors} :
          LET c == RetrySettle(subs[s].research, o)
          IN  IF ~Settled(c)
                  THEN /\ subs' = [subs EXCEPT ![s].research = c]
                       /\ UNCHANGED <<loadingStep, scenario, audioBuffer, error>>
              ELSE IF ~ResearchResult(c).ok
                  THEN Caught(s, [subs[s] EXCEPT !.research = NoCall],
                              ResearchResult(c).val)
              ELSE LET m == MediaStarted(subs[s], ResearchResult(c).val)
                   IN  IF AnyRejected(m) \/ AllFulfilled(m)
                           THEN Resume(s, m)
                           ELSE /\ loadingStep' = "generating_media"
                                /\ subs' = [subs EXCEPT ![s] = m]
                                /\ UNCHANGED <<scenario, audioBuffer, error>>
    /\ UNCHANGED <<retryVars, unitVars>>

\* The timer of the research call's retry fires.
ResearchTimer(s) ==
    /\ subs[s].research.st = "waiting"
    /\ subs' = [subs EXCEPT ![s].research = RetryTimer(@)]
    /\ UNCHANGED <<loadingStep, scenario, audioBuffer, error, retryVars, unitVars>>

\* The speech call of invocation s settles.
AudioSettles(s) ==
    /\ subs[s].audio.call.st = "calling"
    /\ \E o \in {Ok(r) : r \in SpeechResponses(subs[s].audio.text)}
                \cup {Fail(e) : e \in SpeechErrors} :
          LET c == RetrySettle(subs[s].audio.call, o)
          IN  Resume(s, [subs[s] EXCEPT
                            !.audio = AudioAfter(subs[s].scenarioData, @, c)])
    /\ UNCHANGED <<retryVars, unitVars>>

\* The timer of the speech call's retry fires.
AudioTimer(s) ==
    /\ subs[s].audio.call.st = "waiting"
    /\ subs' = [subs EXCEPT ![s].audio.call = RetryTimer(@)]
    /\ UNCHANGED <<loadingStep, scenario, audioBuffer, error, retryVars, unitVars>>

\* The avatar of an invocation after its call became c: the result of a call
\* whose invocation has returned is read by nothing.
AvatarNow(sub, i, c) ==
    IF sub.pc = "generating" \/ ~Settled(c)
        THEN AvatarAfter(sub.avatars[i], c)
        ELSE GoneAvatar

\* The image call for character i of invocation s settles.
AvatarSettles(s, i) ==
    /\ subs[s].avatars[i].call.st = "calling"
    /\ \E o \in {Ok(r) : r \in ImageResponses(i)}
                \cup {Fail(e) : e \in ImageErrors} :
          LET c == RetrySettle(subs[s].avatars[i].call, o)
          IN  Resume(s, [subs[s] EXCEPT !.avatars[i] = AvatarNow(subs[s], i, c)])
    /\ UNCHANGED <<retryVars, unitVars>>

\* The timer of an image call's retry fires.
AvatarTimer(s, i) ==
    /\ subs[s].avatars[i].call.st = "waiting"
    /\ subs' = [subs EXCEPT ![s].avatars[i].call = RetryTimer(@)]
    /\ UNCHANGED <<loadingStep, scenario, audioBuffer, error, retryVars, unitVars>>

\* The "Try Again" button of the error message.
TryAgain ==
    /\ error # Null
    /\ error' = Null
    /\ UNCHANGED <<loadingStep, scenario, audioBuffer, subs, retryVars, unitVars>>

NewSearch_KeepsAudio ==
    /\ scenario # Null
    /\ loadingStep = "idle"
    /\ scenario' = Null
    /\ UNCHANGED <<loadingStep, audioBuffer, error, subs, retryVars, unitVars>>

\* The "New Search" button of the results.
NewSearch ==
    /\ scenario # Null
    /\ loadingStep = "idle"
    /\ scenario' = Null
    /\ audioBuffer' = Null
    /\ UNCHANGED <<loadingStep, error, subs, retryVars, unitVars>>

InitSession ==
    /\ loadingStep = "idle"
    /\ scenario = Null
    /\ audioBuffer = Null
    /\ error = Null
    /\ subs = <<>>

\* Nothing is run on its own.
InitUnits ==
    /\ rs = Null
    /\ ga = Null
    /\ nz = Null
    /\ sm = Null
    /\ xj = Null

Init ==
    /\ InitSession
    /\ rtArgs = [retries |-> MAX_RETRIES, delay |-> INITIAL_DELAY_MS]
    /\ rt = RetryStart(rtArgs.retries, rtArgs.delay)
    /\ opLog = <<>>
    /\ InitUnits

Next ==
    \/ Submit
    \/ \E s \in 1..Len(subs) : ResearchSettles(s)
    \/ \E s \in 1..Len(subs) : ResearchTimer(s)
    \/ \E s \in 1..Len(subs) : AudioSettles(s)
    \/ \E s \in 1..Len(subs) : AudioTimer(s)
    \/ \E s \in 1..Len(subs), i \in 1..2 : AvatarSettles(s, i)
    \/ \E s \in 1..Len(subs), i \in 1..2 : AvatarTimer(s, i)
    \/ TryAgain
    \/ NewSearch

Spec == Init /\ [][Next]_vars

---------------------------------------------------------------------------
(* withRetry run on its own, on an operation that settles in any way. *)

OpValue == [kind |-> "value", v |-> "result"]
OpOutcomes == {Ok(OpValue)} \cup {Fail(e) : e \in ServiceErrors}

RetryArgs == [retries : 0..MaxRetriesArg, delay : {INITIAL_DELAY_MS}]

InitRetry ==
    /\ InitSession
    /\ rtArgs \in RetryArgs
    /\ rt = RetryStart(rtArgs.retries, rtArgs.delay)
    /\ opLog = <<>>
    /\ InitUnits

\* The promise of operation() settles.
OperationSettles ==
    /\ rt.st = "calling"
    /\ \E o \in OpOutcomes :
          /\ rt' = RetrySettle(rt, o)
          /\ opLog' = Append(opLog, o)
    /\ UNCHANGED <<rtArgs, sessionVars, unitVars>>

\* The timer set by withRetry fires.
TimerFires ==
    /\ rt.st = "waiting"
    /\ rt' = RetryTimer(rt)
    /\ UNCHANGED <<rtArgs, opLog, sessionVars, unitVars>>

NextRetry == OperationSettles \/ TimerFires

SpecRetry == InitRetry /\ [][NextRetry]_vars

---------------------------------------------------------------------------
(* Properties of withRetry, under SpecRetry. *)

IsDefaultPolicy ==
    rtArgs = [retries |-> MAX_RETRIES, delay |-> INITIAL_DELAY_MS]

\* The quota / rate-limit signature: a status code of 429, or a message that
\* contains "429", "quota" or "RESOURCE_EXHAUSTED".
QuotaPattern(e) ==
    \/ e.status = 429 \/ e.code = 429
    \/ Includes(e.message, "429")
    \/ Includes(e.message, "quota")
    \/ Includes(e.message, "RESOURCE_EXHAUSTED")

QuotaFailure(o) == ~o.ok /\ QuotaPattern(o.val)
OtherFailure(o) == ~o.ok /\ ~QuotaPattern(o.val)

\* C8: with the default policy, an operation that fails twice with a quota
\* error and then succeeds is invoked exactly three times, with a wait of
\* 2000 ms and then one of 4000 ms, each between two invocations, and its
\* value is returned.
C8_TwoQuotaFailuresThenSuccess ==
    ( /\ IsDefaultPolicy
      /\ Len(opLog) = 3
      /\ QuotaFailure(opLog[1]) /\ QuotaFailure(opLog[2]) /\ opLog[3].ok )
    => /\ rt.st = "returned"
       /\ rt.res = opLog[3].val
       /\ rt.trace = <<CallEv, WaitEv(2000), CallEv, WaitEv(4000), CallEv>>

C8_Witness ==
    /\ IsDefaultPolicy
    /\ Len(opLog) = 3
    /\ QuotaFailure(opLog[1]) /\ QuotaFailure(opLog[2]) /\ opLog[3].ok
    /\ rt.st = "returned"

\* C9: a failure that is not a quota error, on whichever attempt, is thrown
\* as it is: it is the last invocation of the operation, and no timer is set
\* after it.
C9_OtherErrorPropagatesAtOnce ==
    \A k \in 1..Len(opLog) :
        OtherFailure(opLog[k])
        => /\ k = Len(opLog)
           /\ rt.st = "thrown"
           /\ rt.res = opLog[k].val
           /\ Calls(rt.trace) = k
           /\ Len(WaitsOf(rt.trace)) = k - 1
           /\ rt.trace[Len(rt.trace)] = CallEv

C9_Witness ==
    /\ Len(opLog) = 2
    /\ QuotaFailure(opLog[1])
    /\ OtherFailure(opLog[2])
    /\ rt.st = "thrown"
    /\ rt.retries > 0

\* C10: with the default policy the operation is invoked at most 4 times;
\* when every attempt fails with a quota error the waits are 2000, 4000 and
\* 8000 ms, in that order, and the error of the fourth attempt is thrown.
C10_AtMostFourAttempts ==
    IsDefaultPolicy
    => /\ Calls(rt.trace) <= 4
       /\ Len(opLog) <= 4
       /\ ( /\ Settled(rt)
            /\ \A k \in 1..Len(opLog) : QuotaFailure(opLog[k]) )
          => /\ rt.st = "thrown"
             /\ Len(opLog) = 4
             /\ Calls(rt.trace) = 4
             /\ WaitsOf(rt.trace) = <<2000, 4000, 8000>>
             /\ rt.res = opLog[4].val

C10_Witness ==
    /\ IsDefaultPolicy
    /\ rt.st = "thrown"
    /\ Len(opLog) = 4
    /\ \A k \in 1..4 : QuotaFailure(opLog[k])

---------------------------------------------------------------------------
(* Properties of the session, under Spec. *)

Latest == Len(subs)

InFlight(call) == call.st \in {"calling", "waiting"}

\* A speech call or an image call of the invocation has not settled yet.
BranchRunning(sub) ==
    InFlight(sub.audio.call) \/ \E i \in 1..2 : InFlight(sub.avatars[i].call)

\* An invocation has started its speech call or an image call.
MediaBegun(sub) ==
    sub.audio.st # "notStarted" \/ \E i \in 1..2 : sub.avatars[i].st # "notStarted"

HasPrefix(str, p) == Len(str) >= Len(p) /\ SubSeq(str, 1, Len(p)) = p

\* The step is a submission of the form: the last invocation is a new one.
Submitted ==
    /\ Len(subs') > 0
    /\ subs'[Len(subs')].pc = "researching"
    /\ Len(subs) > 0 => subs[Len(subs)].pc # "researching"

\* Invocation s enters its catch block in this step.
Fails(s) ==
    /\ s \in 1..Len(subs)
    /\ ~Submitted
    /\ subs[s].pc # "failed"
    /\ subs'[s].pc = "failed"

\* The step is one of invocation s or of a call it started, not a submission.
StepOf(s) == s \in 1..Len(subs) /\ ~Submitted /\ subs'[s] # subs[s]

\* C1: when research or audio synthesis fails, the submission ends with
\* loadingStep idle, a non-empty error message, and neither a scenario nor an
\* audio buffer; and while the failed submission is the last one none is shown.
C1_FailureEndsIdleWithError ==
    [][ /\ \A s \in 1..Len(subs) :
              Fails(s) => /\ loadingStep' = "idle"
                          /\ error' # Null
                          /\ error'.s # ""
                          /\ scenario' = Null
                          /\ audioBuffer' = Null
        /\ (Len(subs') > 0 /\ subs'[Len(subs')].pc = "failed")
              => /\ loadingStep' = "idle"
                 /\ scenario' = Null
                 /\ audioBuffer' = Null ]_vars

C1_Witness ==
    /\ Latest > 0
    /\ subs[Latest].pc = "failed"
    /\ subs[Latest].researched
    /\ \E i \in 1..2 : InFlight(subs[Latest].avatars[i].call)
    /\ error # Null
    /\ loadingStep = "idle"

\* C2: once a later submission has started, no step of an earlier submission
\* or of a call it started changes loadingStep, scenario, audioBuffer or error.
C2_StaleResultsIgnored ==
    [][ \A s \in 1..Len(subs) :
            (s < Len(subs) /\ StepOf(s))
            => UNCHANGED <<loadingStep, scenario, audioBuffer, error>> ]_vars

C2_Witness ==
    /\ Latest = 2
    /\ subs[2].pc = "generating"
    /\ loadingStep = "generating_media"
    /\ subs[1].avatars[1].st = "gone"
    /\ InFlight(subs[1].avatars[2].call)

\* C3: an invocation has started a speech call or an image call only if its
\* research had returned a scenario, and loadingStep is generating_media only
\* for a submission whose research had.
C3_ResearchPrecedesMedia ==
    /\ \A s \in 1..Len(subs) : MediaBegun(subs[s]) => subs[s].researched
    /\ \A s \in 1..Len(subs) :
          subs[s].pc = "researching"
          => /\ ~subs[s].researched
             /\ subs[s].scenarioData = Null
             /\ InFlight(subs[s].research)
    /\ loadingStep = "generating_media"
          => /\ Latest > 0
             /\ subs[Latest].pc = "generating"
             /\ subs[Latest].researched
             /\ subs[Latest].scenarioData \in ResearchScenarios

C3_Witness ==
    /\ Latest > 0
    /\ subs[Latest].pc = "failed"
    /\ ~subs[Latest].researched
    /\ ~MediaBegun(subs[Latest])
    /\ error # Null

\* C4: a scenario or an audio buffer is shown only when the last submission
\* has merged, and an invocation that has merged has no speech call and no
\* image call still running; while a branch of the running submission is
\* running neither is shown and loadingStep is generating_media.
C4_PublishedAfterAllBranches ==
    /\ (scenario # Null \/ audioBuffer # Null)
          => /\ Latest > 0
             /\ subs[Latest].pc = "done"
             /\ loadingStep = "idle"
    /\ \A s \in 1..Len(subs) :
          /\ subs[s].pc = "done" => ~BranchRunning(subs[s])
          /\ (subs[s].pc = "generating" /\ BranchRunning(subs[s]))
                => /\ scenario = Null
                   /\ audioBuffer = Null
                   /\ loadingStep = "generating_media"

C4_Witness ==
    /\ Latest > 0
    /\ subs[Latest].pc = "done"
    /\ subs[Latest].generateImages
    /\ subs[Latest].avatars[1].got = "error"
    /\ subs[Latest].avatars[2].got = "image"
    /\ scenario # Null
    /\ audioBuffer # Null
    /\ loadingStep = "idle"

\* C5: when generateDialogueAudio fails the submission fails in that step,
\* whatever the image calls have done: error is the message of the audio
\* failure, nothing is shown, and a step of an image call of the failed
\* submission changes none of loadingStep, scenario, audioBuffer and error.
C5_AudioFailureAborts ==
    [][ /\ \A s \in 1..Len(subs) :
              /\ (Fails(s) /\ subs'[s].researched)
                    => /\ error' # Null
                       /\ HasPrefix(error'.s, "Audio generation failed: ")
                       /\ scenario' = Null
                       /\ audioBuffer' = Null
                       /\ loadingStep' = "idle"
              /\ (subs[s].pc = "failed" /\ StepOf(s))
                    => UNCHANGED <<loadingStep, scenario, audioBuffer, error>>
        /\ \A s \in 1..Len(subs') :
              subs'[s].audio.st = "rejected" => subs'[s].pc = "failed" ]_vars

C5_Witness ==
    /\ Latest > 0
    /\ subs[Latest].pc = "failed"
    /\ subs[Latest].researched
    /\ subs[Latest].avatars[1].st = "gone"
    /\ InFlight(subs[Latest].avatars[2].call)
    /\ error # Null
    /\ HasPrefix(error.s, "Audio generation failed: ")

\* C6: an image call that ends with an error, or with a response that holds
\* no image, gives no avatarUrl, and one that ends with an image gives the
\* data URI of its own payload; a submission whose audio has resolved
\* does not fail, and is merged once every image call has ended.
C6_AvatarFailuresTolerated ==
    [][ /\ \A s \in 1..Len(subs) :
              subs[s].audio.st = "resolved" => ~Fails(s)
        /\ \A s \in 1..Len(subs') :
              /\ (subs'[s].audio.st = "resolved" /\ ImagesDone(subs'[s]))
                    => subs'[s].pc = "done"
              /\ \A i \in 1..2 :
                    subs'[s].avatars[i].st = "done"
                    => /\ subs'[s].avatars[i].got \in {"error", "none"}
                          => subs'[s].avatars[i].url = Null
                       /\ subs'[s].avatars[i].got = "image"
                          => subs'[s].avatars[i].url
                               = Str("data:image/png;base64," \o ImageOf(i))
                       /\ (subs'[s].pc = "done" /\ scenario' # Null)
                          => scenario'.characters[i].avatarUrl
                               = subs'[s].avatars[i].url ]_vars

C6_Witness ==
    /\ Latest > 0
    /\ subs[Latest].pc = "done"
    /\ subs[Latest].avatars[1].got = "image"
    /\ subs[Latest].avatars[2].got = "error"
    /\ scenario # Null
    /\ scenario.characters[1].avatarUrl # Null
    /\ scenario.characters[2].avatarUrl = Null

\* C7: a submission made with generateImages = false starts no image call,
\* and the scenario it shows is the one research returned, with no avatarUrl.
C7_NoImagesPassThrough ==
    \A s \in 1..Len(subs) :
        ~subs[s].generateImages
        => /\ \A i \in 1..2 : subs[s].avatars[i].st = "notStarted"
           /\ (s = Latest /\ subs[s].pc = "done" /\ scenario # Null)
                 => /\ scenario.characters = subs[s].scenarioData.characters
                    /\ scenario = subs[s].scenarioData
                    /\ \A i \in 1..2 : scenario.characters[i].avatarUrl = Null

C7_Witness ==
    /\ Latest > 0
    /\ ~subs[Latest].generateImages
    /\ subs[Latest].pc = "done"
    /\ scenario # Null
    /\ audioBuffer # Null

\* Invocation s passes the await of Promise.all in this step.
Publishes(s) ==
    /\ s \in 1..Len(subs)
    /\ ~Submitted
    /\ subs[s].pc = "generating"
    /\ subs'[s].pc = "done"

\* C26: a submission with generateImages = false whose research returns a
\* scenario and whose speech call returns audio goes from researching to
\* generating_media and from there to idle, with no error, the scenario of
\* research published with its two characters and no avatarUrl, and the
\* audio buffer.
C26_EndToEnd ==
    [][ \A s \in 1..Len(subs) :
          /\ (~Submitted /\ subs[s].pc # "generating" /\ subs'[s].pc = "generating")
                => /\ subs[s].pc = "researching"
                   /\ loadingStep = "researching"
                   /\ loadingStep' = "generating_media"
          /\ (~Submitted /\ ~subs[s].generateImages /\ subs[s].pc = "generating"
                /\ subs'[s].audio.st = "resolved")
                => Publishes(s)
          /\ (Publishes(s) /\ ~subs[s].generateImages)
                => /\ loadingStep = "generating_media"
                   /\ loadingStep' = "idle"
                   /\ error' = Null
                   /\ scenario' = subs[s].scenarioData
                   /\ Len(scenario'.characters) = 2
                   /\ \A i \in 1..2 : scenario'.characters[i].avatarUrl = Null
                   /\ audioBuffer' # Null
                   /\ audioBuffer'.kind = "AudioBuffer" ]_vars

C26_Witness ==
    /\ Latest > 0
    /\ ~subs[Latest].generateImages
    /\ subs[Latest].pc = "done"
    /\ loadingStep = "idle"
    /\ error = Null
    /\ scenario # Null
    /\ Len(scenario.characters) = 2
    /\ Len(scenario.script) = 2
    /\ audioBuffer # Null
    /\ audioBuffer.of = DialogueText(scenario, FALSE)

\* A remote call of some invocation answers, or the timer of a retry fires.
Answered ==
    \E s \in 1..Len(subs) :
        \/ ResearchSettles(s)
        \/ ResearchTimer(s)
        \/ AudioSettles(s)
        \/ AudioTimer(s)
        \/ \E i \in 1..2 : AvatarSettles(s, i) \/ AvatarTimer(s, i)

\* How many invocations have a call running at one time where the session
\* is run with fairness.
MaxFairSubmissions == 1

\* A submission that leaves no more than MaxFairSubmissions invocations.
FairSubmit == Submit /\ Len(subs') <= MaxFairSubmissions

NextFair ==
    \/ FairSubmit
    \/ \E s \in 1..Len(subs) : ResearchSettles(s)
    \/ \E s \in 1..Len(subs) : ResearchTimer(s)
    \/ \E s \in 1..Len(subs) : AudioSettles(s)
    \/ \E s \in 1..Len(subs) : AudioTimer(s)
    \/ \E s \in 1..Len(subs), i \in 1..2 : AvatarSettles(s, i)
    \/ \E s \in 1..Len(subs), i \in 1..2 : AvatarTimer(s, i)
    \/ TryAgain
    \/ NewSearch

\* The session in which, while a call or a timer is pending, one of them
\* answers or fires in the end.
SpecFair == Init /\ [][NextFair]_vars /\ WF_vars(Answered)

\* C27: every submission returns to loadingStep idle in the end, given
\* that each remote call answers in the end: the session does not stay in
\* researching or in generating_media for ever.
C27_ReturnsToIdle == (loadingStep # "idle") ~> (loadingStep = "idle")

\* A submission came back to idle after its research call was retried three
\* times and its speech call went to the translated attempt.
C27_Witness ==
    /\ Latest > 0
    /\ loadingStep = "idle"
    /\ subs[Latest].pc = "done"
    /\ audioBuffer # Null
    /\ audioBuffer.of = DialogueText(scenario, TRUE)
    /\ DialogueText(scenario, TRUE) # DialogueText(scenario, FALSE)

\* C28: on submission handleSubmit sets scenario, audioBuffer and error to
\* null and loadingStep to researching, with the research call issued and
\* nothing else started, whatever the state before.
C28_SubmitClears ==
    [][ Submitted => /\ scenario' = Null
                     /\ audioBuffer' = Null
                     /\ error' = Null
                     /\ loadingStep' = "researching"
                     /\ subs'[Len(subs')] \in {NewSubmission(g) : g \in BOOLEAN}
                     /\ subs'[Len(subs')].research.st = "calling" ]_vars

\* A submission made after one that failed: its image calls still run.
C28_Witness ==
    /\ Len(subs) = 2
    /\ subs[1].pc = "failed"
    /\ subs[2].pc = "researching"
    /\ ~subs[2].researched
    /\ loadingStep = "researching"
    /\ error = Null
    /\ scenario = Null
    /\ audioBuffer = Null

\* An invocation of handleSubmit that has not returned.
Running(s) == subs[s].pc \in {"researching", "generating"}

\* C33: in every state of the session scenario is null exactly when
\* audioBuffer is: the merge sets both, a submission and "New Search" clear
\* both.
C33_ScenarioWithAudio == (scenario # Null) <=> (audioBuffer # Null)

\* A result was shown and "New Search" has cleared it.
C33_Witness ==
    /\ Latest > 0
    /\ subs[Latest].pc = "done"
    /\ loadingStep = "idle"
    /\ scenario = Null
    /\ audioBuffer = Null

\* C34: while loadingStep is researching or generating_media, scenario,
\* audioBuffer and error are null; and while error is not null, scenario and
\* audioBuffer are.
C34_BusyOrErrorShowsNoResult ==
    /\ loadingStep # "idle"
          => scenario = Null /\ audioBuffer = Null /\ error = Null
    /\ error # Null => scenario = Null /\ audioBuffer = Null

\* The media of a submission are being generated, the submission before it
\* having failed.
C34_Witness ==
    /\ Len(subs) = 2
    /\ subs[1].pc = "failed"
    /\ subs[2].pc = "generating"
    /\ loadingStep = "generating_media"
    /\ error = Null
    /\ scenario = Null
    /\ audioBuffer = Null

\* C35: at most one invocation of handleSubmit has not returned, loadingStep
\* is idle exactly when none has, and the form is submitted only while
\* loadingStep is idle.
C35_OneSubmissionInFlight ==
    /\ [](/\ Cardinality({s \in 1..Len(subs) : Running(s)}) <= 1
          /\ (loadingStep = "idle") <=> ~\E s \in 1..Len(subs) : Running(s))
    /\ [][ Submitted => /\ loadingStep = "idle"
                        /\ ~\E s \in 1..Len(subs) : Running(s)
                        /\ \A s \in 1..Len(subs') : Running(s)' => s = Len(subs') ]_vars

\* A second submission runs, the first having failed: an image call of the
\* first is still running, the invocation is not.
C35_Witness ==
    /\ Len(subs) = 2
    /\ ~Running(1)
    /\ \E i \in 1..2 : InFlight(subs[1].avatars[i].call)
    /\ Running(2)
    /\ loadingStep # "idle"

\* The remote calls of an invocation: research, speech, and the two images.
CallOf(sub, k) ==
    IF k = 1 THEN sub.research
    ELSE IF k = 2 THEN sub.audio.call
    ELSE sub.avatars[k - 2].call

\* C32: an image call invokes the image service at most 3 times, waiting
\* 2000 ms and then 4000 ms between the invocations; the retries it has left
\* and its delay follow from its own invocations alone, and a step that
\* changes one running call of the session changes no other running call.
C32_AvatarBudgetOwn ==
    /\ [](\A s \in 1..Len(subs), i \in 1..2 :
            LET c == subs[s].avatars[i].call
            IN  InFlight(c) =>
                  /\ Calls(c.trace) <= 3
                  /\ WaitsOf(c.trace) \in {<<>>, <<2000>>, <<2000, 4000>>}
                  /\ Len(WaitsOf(c.trace)) \in {Calls(c.trace) - 1, Calls(c.trace)}
                  /\ c.retries = 3 - Calls(c.trace)
                  /\ c.delay = 2000 * 2 ^ (Calls(c.trace) - 1))
    /\ [][ ~Submitted =>
             \A s, t \in 1..Len(subs), j, k \in 1..4 :
                (/\ <<s, j>> # <<t, k>>
                 /\ InFlight(CallOf(subs[s], j))
                 /\ InFlight(CallOf(subs[t], k))
                 /\ CallOf(subs'[s], j) # CallOf(subs[s], j))
                    => CallOf(subs'[t], k) = CallOf(subs[t], k) ]_vars

\* The image call of the first character makes its third invocation, after
\* waits of 2000 ms and 4000 ms, while that of the second has made one and
\* the speech call waits to make its second.
C32_Witness ==
    /\ Latest > 0
    /\ subs[Latest].pc = "generating"
    /\ InFlight(subs[Latest].avatars[1].call)
    /\ subs[Latest].avatars[1].call.trace = <<CallEv, 2000, CallEv, 4000, CallEv>>
    /\ subs[Latest].avatars[1].call.retries = 0
    /\ InFlight(subs[Latest].avatars[2].call)
    /\ subs[Latest].avatars[2].call.trace = <<CallEv>>
    /\ subs[Latest].avatars[2].call.retries = 2
    /\ subs[Latest].avatars[2].call.delay = 2000
    /\ subs[Latest].audio.call.st = "waiting"
    /\ subs[Latest].audio.call.retries = 3

---------------------------------------------------------------------------
(* generateDialogueAudio run on its own, on a speech service that answers *)
(* in any way.                                                            *)

\* The scenarios it is given: those of the session, and one whose
\* translation is a stage direction only.
\* The sequences over S of length n at most.
SeqsUpTo(S, n) == UNION {[1..k -> S] : k \in 0..n}

\* The longest script of a scenario made of a cast and lines.
MaxScript == 2

\* Casts as the normalization leaves them: two names that differ, of which
\* one may hold the other or be empty, and two voices that differ.
Casts ==
    { <<Character("Ana", "female", "Kore", ""), Character("Luis", "male", "Puck", "")>>,
      <<Character("Ana", "female", "Kore", ""), Character("Ana Maria", "female", "Aoede", "")>>,
      <<Character("", "male", "Fenrir", ""), Character("Speaker 2", "male", "Charon", "")>> }

\* The lines of a cast: of either character, or of a speaker the
\* normalization left that is neither; with a native text that renders or
\* is a stage direction only.
CastLines(cast) ==
    { Line(speaker, t[1], t[2]) :
        speaker \in {cast[1].name, cast[2].name, "Narrator"},
        t \in {<<"Hola *rie*", "Hello">>, <<"*calla*", "So it is">>} }

CastScenarios ==
    UNION { { Scenario("Timbuktu, 1324", cast, script) :
                script \in SeqsUpTo(CastLines(cast), MaxScript) } : cast \in Casts }

AudioScenarios ==
    ResearchScenarios
    \cup { Scenario("Uruk, 2500 BC",
                    <<Character("Enki", "male", "Charon", "a priest"),
                      Character("Nisa", "female", "Kore", "a weaver")>>,
                    <<Line("Enki", "Silim", "*bows*")>>) }
    \cup CastScenarios

SpeechOutcomes(text) ==
    {Ok(r) : r \in SpeechResponses(text)} \cup {Fail(e) : e \in SpeechErrors}

\* The requests made of the speech service, transcript and voice
\* configuration, with the way each ended: one is added when the audio
\* became b by starting the call of an attempt.
Sent(log, sc, b, started) ==
    IF started /\ b.call.st = "calling"
        THEN Append(log, [text |-> b.text, voices |-> SpeakerVoiceConfigs(sc),
                          o |-> Null])
        ELSE log

InitAudio ==
    /\ InitSession
    /\ rtArgs = [retries |-> MAX_RETRIES, delay |-> INITIAL_DELAY_MS]
    /\ rt = RetryStart(rtArgs.retries, rtArgs.delay)
    /\ opLog = <<>>
    /\ rs = Null
    /\ nz = Null
    /\ sm = Null
    /\ xj = Null
    /\ \E sc \in AudioScenarios :
          ga = [sc |-> sc, audio |-> AudioBegin(sc),
                log |-> Sent(<<>>, sc, AudioBegin(sc), TRUE)]

\* The speech call of the running attempt settles.
SpeechSettles ==
    /\ ga.audio.call.st = "calling"
    /\ \E o \in SpeechOutcomes(ga.audio.text) :
          LET c == RetrySettle(ga.audio.call, o)
              b == AudioAfter(ga.sc, ga.audio, c)
              ended == IF Settled(c)
                           THEN [ga.log EXCEPT ![Len(ga.log)].o = o]
                           ELSE ga.log
          IN  ga' = [ga EXCEPT !.audio = b, !.log = Sent(ended, ga.sc, b, Settled(c))]
    /\ UNCHANGED <<sessionVars, retryVars, rs, nz, sm, xj>>

\* The timer of the speech call's retry fires.
SpeechTimer ==
    /\ ga.audio.call.st = "waiting"
    /\ ga' = [ga EXCEPT !.audio.call = RetryTimer(@)]
    /\ UNCHANGED <<sessionVars, retryVars, rs, nz, sm, xj>>

NextAudio == SpeechSettles \/ SpeechTimer

SpecAudio == InitAudio /\ [][NextAudio]_vars

---------------------------------------------------------------------------
(* Properties of generateDialogueAudio, under SpecAudio. *)

NativeText == DialogueText(ga.sc, FALSE)
TranslatedText == DialogueText(ga.sc, TRUE)

\* Where the call of the native attempt and of the translated attempt are
\* in the log: an attempt whose transcript is empty makes no call.
NativeEntry == IF Trim(NativeText) = "" THEN 0 ELSE 1
FallbackEntry == IF Trim(TranslatedText) = "" THEN 0 ELSE NativeEntry + 1

HasEnded(i) == i \in 1..Len(ga.log) /\ ga.log[i].o # Null

\* A call that ended with o, as performGeneration sees it.
ClosedCall(o) == [st |-> IF o.ok THEN "returned" ELSE "thrown", res |-> o.val]

GaveAudio(o) == o.ok /\ o.val.data # Null

NativeFailed ==
    \/ NativeEntry = 0
    \/ HasEnded(NativeEntry) /\ ~GaveAudio(ga.log[NativeEntry].o)

FallbackSucceeded ==
    NativeFailed /\ HasEnded(FallbackEntry) /\ GaveAudio(ga.log[FallbackEntry].o)

FallbackFailed ==
    /\ NativeFailed
    /\ \/ FallbackEntry = 0
       \/ HasEnded(FallbackEntry) /\ ~GaveAudio(ga.log[FallbackEntry].o)

\* The message of the failure of the attempt whose call is entry i.
AttemptMessage(i) ==
    IF i = 0 THEN "Dialogue text is empty."
    ELSE GenerationResult(ClosedCall(ga.log[i].o)).val.message

\* C11: when the native attempt failed and the translated attempt gave audio,
\* generateDialogueAudio resolves with the decoded payload of the translated
\* attempt; and it rejects only once the translated attempt has failed too.
C11_FallbackResultReturned ==
    /\ FallbackSucceeded
          => /\ ga.audio.st = "resolved"
             /\ ga.log[FallbackEntry].text = TranslatedText
             /\ ga.audio.res = DecodeAudio(ga.log[FallbackEntry].o.val.data)
    /\ ga.audio.st = "rejected" => FallbackFailed

C11_Witness ==
    /\ NativeEntry = 1
    /\ FallbackSucceeded
    /\ ~ga.log[1].o.ok
    /\ NativeText # TranslatedText
    /\ ga.audio.st = "resolved"

\* C12: the speech service is asked for the native transcript first and for
\* the translated one at most once, only after the native attempt failed; and
\* when both attempts fail the error is "Audio generation failed: " followed
\* by the message of the translated attempt's failure.
C12_AtMostOneFallback ==
    /\ Len(ga.log) <= 2
    /\ \A i \in 1..Len(ga.log) :
          /\ i \in {NativeEntry, FallbackEntry}
          /\ ga.log[i].text = IF i = NativeEntry THEN NativeText
                                                 ELSE TranslatedText
    /\ (FallbackEntry > 0 /\ Len(ga.log) >= FallbackEntry) => NativeFailed
    /\ (NativeEntry = 1 /\ HasEnded(1) /\ GaveAudio(ga.log[1].o))
          => /\ Len(ga.log) = 1
             /\ ga.audio.st = "resolved"
             /\ ga.audio.res = DecodeAudio(ga.log[1].o.val.data)
    /\ FallbackFailed
          => /\ ga.audio.st = "rejected"
             /\ ga.audio.res.message
                  = "Audio generation failed: " \o AttemptMessage(FallbackEntry)

C12_Witness ==
    /\ NativeEntry = 1
    /\ FallbackEntry = 2
    /\ FallbackFailed
    /\ ga.audio.st = "rejected"
    /\ AttemptMessage(1) # AttemptMessage(2)
    /\ ga.audio.res.message
         = "Audio generation failed: Audio generation was blocked by safety filters."

\* The categories of a failure of generateDialogueAudio, which the code tells
\* apart by the message of the Error only.
ContentBlockedMessage == "Audio generation was blocked by safety filters."
IsContentBlocked(e) == e.message = ContentBlockedMessage
IsAudioGenerationFailed(e) == HasPrefix(e.message, "Audio generation failed: ")

\* The speech service answered with no audio: blocked for safety, or not.
SafetyBlocked(o) == o.ok /\ o.val.data = Null /\ o.val.finishReason = "SAFETY"
NoPayload(o) == o.ok /\ o.val.data = Null /\ o.val.finishReason # "SAFETY"

FallbackBlocked ==
    /\ NativeFailed
    /\ HasEnded(FallbackEntry)
    /\ SafetyBlocked(ga.log[FallbackEntry].o)

\* C13 as stated: when the speech service answers the attempt that decides
\* the call with no audio and the reason SAFETY, generateDialogueAudio fails
\* with the ContentBlocked failure, which is not an AudioGenerationFailed.
C13_Original ==
    FallbackBlocked
    => /\ ga.audio.st = "rejected"
       /\ IsContentBlocked(ga.audio.res)
       /\ ~IsAudioGenerationFailed(ga.audio.res)

\* C13 amended: when the translated attempt is answered with no audio and
\* the reason SAFETY, generateDialogueAudio fails with an
\* AudioGenerationFailed whose message is "Audio generation failed: "
\* followed by the ContentBlocked message, which no other answer without
\* audio gives; a native attempt blocked for safety is only followed by the
\* translated attempt.
C13_SafetyBlockInsideAudioFailed ==
    /\ FallbackBlocked
          => /\ ga.audio.st = "rejected"
             /\ IsAudioGenerationFailed(ga.audio.res)
             /\ ga.audio.res.message
                  = "Audio generation failed: " \o ContentBlockedMessage
    /\ (FallbackFailed /\ FallbackEntry > 0 /\ ~SafetyBlocked(ga.log[FallbackEntry].o))
          => /\ ga.audio.st = "rejected"
             /\ ga.audio.res.message
                  # "Audio generation failed: " \o ContentBlockedMessage
    /\ (NativeEntry = 1 /\ HasEnded(1) /\ SafetyBlocked(ga.log[1].o))
          => \/ ga.audio.st = "fallback" /\ Len(ga.log) = 2
             \/ ga.audio.st = "resolved" /\ FallbackSucceeded
             \/ ga.audio.st = "rejected" /\ FallbackFailed

C13_Witness ==
    /\ NativeEntry = 1
    /\ HasEnded(1)
    /\ NoPayload(ga.log[1].o)
    /\ FallbackBlocked
    /\ ga.audio.st = "rejected"

\* An attempt renders no transcript.
NativeEmpty == Trim(NativeText) = ""
TranslatedEmpty == Trim(TranslatedText) = ""

\* The call of the native attempt ended without audio.
NativeCallFailed ==
    /\ ~NativeEmpty
    /\ Len(ga.log) >= 1
    /\ ga.log[1].o # Null
    /\ ~GaveAudio(ga.log[1].o)

\* C25: when the transcript an attempt renders is entirely empty (every
\* selected line is empty once the stage directions are stripped, or the
\* script is empty), the attempt fails with "Dialogue text is empty." and
\* the speech service is not asked: an empty native attempt goes to the
\* translated one at once, an empty translated attempt ends the call.
C25_EmptyTranscriptNotSent ==
    /\ \A i \in 1..Len(ga.log) : Trim(ga.log[i].text) # ""
    /\ (NativeEmpty /\ ~TranslatedEmpty)
          => Len(ga.log) >= 1 /\ ga.log[1].text = TranslatedText
    /\ (TranslatedEmpty /\ (NativeEmpty \/ NativeCallFailed))
          => /\ ga.audio.st = "rejected"
             /\ ga.audio.res = AudioFailed(EmptyDialogue)
             /\ Len(ga.log) = IF NativeEmpty THEN 0 ELSE 1

\* The native call failed and the translation is a stage direction only.
C25_Witness ==
    /\ NativeCallFailed
    /\ TranslatedEmpty
    /\ \E i \in 1..Len(ga.sc.script) : ga.sc.script[i].translation # ""
    /\ ga.audio.st = "rejected"
    /\ ga.audio.res.message = "Audio generation failed: Dialogue text is empty."


\* The transcript of the script of ga.sc from line k on, in the native text
\* or in the translation, where line k is tagged labels[k].
RECURSIVE TaggedFrom(_, _, _)
TaggedFrom(labels, useTranslation, k) ==
    IF k > Len(ga.sc.script) THEN ""
    ELSE LET line == ga.sc.script[k]
             said == Trim(StripActions(IF useTranslation THEN line.translation
                                       ELSE line.text))
         IN  (IF said = "" THEN "" ELSE labels[k] \o ": " \o said \o "\n")
             \o TaggedFrom(labels, useTranslation, k + 1)

\* The taggings of the lines that give character 1 the label Speaker A and
\* character 2 the label Speaker B.
Taggings ==
    {labels \in [1..Len(ga.sc.script) -> {"Speaker A", "Speaker B"}] :
        \A k \in 1..Len(ga.sc.script) :
            /\ ga.sc.script[k].speaker = ga.sc.characters[1].name
                  => labels[k] = "Speaker A"
            /\ ga.sc.script[k].speaker = ga.sc.characters[2].name
                  => labels[k] = "Speaker B"}

\* C31: every request to the speech service, of the native attempt and of
\* the fallback alike, holds the lines of the script that render, in script
\* order, those of character 1 tagged Speaker A and those of character 2
\* Speaker B, with the voice of character 1 set for Speaker A and that of
\* character 2 for Speaker B.
C31_ChannelsByCharacter ==
    \A i \in 1..Len(ga.log) :
        /\ ga.log[i].voices =
              <<[speaker |-> "Speaker A", voiceName |-> ga.sc.characters[1].voice],
                [speaker |-> "Speaker B", voiceName |-> ga.sc.characters[2].voice]>>
        /\ \E labels \in Taggings :
              ga.log[i].text = TaggedFrom(labels, i # NativeEntry, 1)

\* The fallback of a script where character 2 speaks before character 1,
\* whose name is part of the other's: both requests were made.
C31_Witness ==
    /\ ga.sc.characters[1].name = "Ana"
    /\ ga.sc.characters[2].name = "Ana Maria"
    /\ Len(ga.sc.script) = 2
    /\ ga.sc.script[1].speaker = "Ana Maria"
    /\ ga.sc.script[2].speaker = "Ana"
    /\ Len(ga.log) = 2
    /\ ga.log[1].text = "Speaker B: Hola\nSpeaker A: Hola\n"
    /\ ga.log[2].text = "Speaker B: Hello\nSpeaker A: Hello\n"
    /\ ga.log[1].voices = ga.log[2].voices
    /\ ga.log[2].voices[2] = [speaker |-> "Speaker B", voiceName |-> "Aoede"]

---------------------------------------------------------------------------
(* researchLocationAndDate run on its own, on a research service that *)
(* answers in any way.                                                *)

ResearchOutcomes ==
    {Ok(r) : r \in ResearchResponses} \cup {Fail(e) : e \in ServiceErrors}

InitResearch ==
    /\ InitSession
    /\ rtArgs = [retries |-> MAX_RETRIES, delay |-> INITIAL_DELAY_MS]
    /\ rt = RetryStart(rtArgs.retries, rtArgs.delay)
    /\ opLog = <<>>
    /\ rs = Null
    /\ ga = Null
    /\ nz = Null
    /\ sm = Null
    /\ xj = Null

\* The research call settles; rs is what researchLocationAndDate ends with.
ResearchAnswers ==
    /\ rt.st = "calling"
    /\ \E o \in ResearchOutcomes :
          /\ rt' = RetrySettle(rt, o)
          /\ opLog' = Append(opLog, o)
          /\ rs' = IF Settled(RetrySettle(rt, o))
                       THEN ResearchResult(RetrySettle(rt, o))
                       ELSE rs
    /\ UNCHANGED <<rtArgs, sessionVars, ga, nz, sm, xj>>

\* The timer of the research call's retry fires.
ResearchWaited ==
    /\ rt.st = "waiting"
    /\ rt' = RetryTimer(rt)
    /\ UNCHANGED <<rtArgs, opLog, sessionVars, rs, ga, nz, sm, xj>>

NextResearch == ResearchAnswers \/ ResearchWaited

SpecResearch == InitResearch /\ [][NextResearch]_vars

---------------------------------------------------------------------------
(* Properties of researchLocationAndDate, under SpecResearch. *)

\* The categories of a failure of researchLocationAndDate, which the code
\* tells apart by the message of the Error only.
ResearchBlockedMessage ==
    "The request was blocked by safety filters. Please try a different location or topic."
ServiceBusyMessage ==
    "The system is currently busy (Quota Exceeded). Please try again in a moment."
IsServiceBusy(e) == e.message = ServiceBusyMessage
IsResearchFailed(e) == HasPrefix(e.message, "Research failed: ")

\* The last answer of the research service.
LastAnswer == opLog[Len(opLog)]

BlockedForSafety ==
    /\ rs # Null
    /\ LastAnswer.ok
    /\ LastAnswer.val.finishReason = "SAFETY"

\* C14 as stated: a safety block of the research service makes
\* researchLocationAndDate fail with the ContentBlocked failure, which is
\* neither a ResearchFailed nor a ServiceBusy.
C14_Original ==
    BlockedForSafety
    => /\ ~rs.ok
       /\ rs.val.message = ResearchBlockedMessage
       /\ ~IsResearchFailed(rs.val)
       /\ ~IsServiceBusy(rs.val)

\* C14 amended: a safety block of the research service makes
\* researchLocationAndDate fail, whatever text the response holds, with a
\* ResearchFailed whose message is "Research failed: " followed by the
\* safety-block message, which is not ServiceBusy and which no other
\* failure gives.
C14_SafetyBlockInsideResearchFailed ==
    /\ BlockedForSafety
          => /\ ~rs.ok
             /\ IsResearchFailed(rs.val)
             /\ ~IsServiceBusy(rs.val)
             /\ rs.val.message = "Research failed: " \o ResearchBlockedMessage
    /\ (rs # Null /\ ~BlockedForSafety /\ ~rs.ok)
          => rs.val.message # "Research failed: " \o ResearchBlockedMessage

C14_Witness ==
    /\ BlockedForSafety
    /\ LastAnswer.val.text = "object"
    /\ LastAnswer.val.scenario # Null
    /\ Len(opLog) > 1
    /\ ~rs.ok

\* The failure the catch block of researchLocationAndDate is given: the
\* error the call was rejected with, or the one the try block threw.
Underlying ==
    IF LastAnswer.ok THEN ResearchBody(LastAnswer.val) ELSE LastAnswer

\* C15: a failure with the quota signature of withRetry (status or code 429,
\* or a message that holds "429", "quota" or "RESOURCE_EXHAUSTED") is
\* surfaced as ServiceBusy, and every other one as ResearchFailed with its
\* message kept.
C15_QuotaSurfacedAsBusy ==
    (rs # Null /\ ~Underlying.ok)
    => /\ ~rs.ok
       /\ isQuotaError(Underlying.val) => IsServiceBusy(rs.val)
       /\ ~isQuotaError(Underlying.val)
             => rs.val.message = "Research failed: " \o Underlying.val.message

---------------------------------------------------------------------------
(* The normalization of researchLocationAndDate: the characters. *)
(* A value of the payload is a record with its kind: a string, undefined, *)
(* null, an array with its items, an object with its properties.         *)

Undefined == [kind |-> "undefined"]
Arr(items) == [kind |-> "array", items |-> items]

\* String(v)
ToStr(v) == IF v.kind = "string" THEN v.s ELSE v.kind

\* v is truthy: a function (an inherited property of {}) is, "" is not.
Truthy(v) ==
    \/ v.kind = "string" /\ v.s # ""
    \/ v.kind = "function"

UpperLetters == {Ch(UpperCase, k) : k \in 1..Len(UpperCase)}

\* The lower-case letter of an upper-case one.
LowerOf ==
    [c \in UpperLetters |->
        Ch(LowerCase, CHOOSE k \in 1..Len(UpperCase) : Ch(UpperCase, k) = c)]

RECURSIVE LowerFrom(_, _)
LowerFrom(s, i) ==
    IF i > Len(s) THEN ""
    ELSE (IF Ch(s, i) \in UpperLetters THEN LowerOf[Ch(s, i)] ELSE Ch(s, i))
         \o LowerFrom(s, i + 1)

\* s.toLowerCase()
ToLowerCase(s) == LowerFrom(s, 1)

maleVoices == <<"Puck", "Fenrir", "Charon", "Zephyr">>
femaleVoices == <<"Kore", "Aoede">>

\* An entry of data.characters that is an object.
Entry(name, gender, voice) ==
    [kind |-> "object", name |-> name, gender |-> gender, voice |-> voice]

\* The entry pushed when data.characters holds fewer than two: nextId is 1
\* or 2 there.
DefaultCharacter(nextId) ==
    IF nextId % 2 # 0
        THEN Entry(Str("Speaker 1"), Str("male"), Str("Puck"))
        ELSE Entry(Str("Speaker 2"), Str("female"), Str("Kore"))

RECURSIVE Pad(_)
\* while (data.characters.length < 2) push
Pad(chars) ==
    IF Len(chars) >= 2 THEN chars
    ELSE Pad(Append(chars, DefaultCharacter(Len(chars) + 1)))

\* data.characters after the padding and slice(0, 2)
TwoCharacters(data) ==
    SubSeq(Pad(IF data.characters.kind = "array"
                   THEN data.characters.items ELSE <<>>), 1, 2)

\* The body of "Sanitize names to be clean strings", for an object c.
Sanitize(c) ==
    [c EXCEPT !.name = Str(Trim(ToStr(c.name))),
              !.gender = IF c.gender \in {Str("male"), Str("female")}
                             THEN c.gender ELSE Str("male")]

\* "Ensure distinct names"
Disambiguate(cs) ==
    IF cs[1].name = cs[2].name
        THEN <<[cs[1] EXCEPT !.name = Str(cs[1].name.s \o " (1)")],
               [cs[2] EXCEPT !.name = Str(cs[2].name.s \o " (2)")]>>
        ELSE cs

Has(list, v) == \E i \in 1..Len(list) : Str(list[i]) = v

\* Math.random(), as a number of quarters.
RandomDraws == 0..3

\* Math.floor(Math.random() * n), for the draw r
RandomIndex(r, n) == (r * n) \div 4

getValidVoice_IgnoresTaken(char, takenVoice, r) ==
    LET voiceList == IF char.gender = Str("female") THEN femaleVoices
                                                    ELSE maleVoices
    IN  IF Has(voiceList, char.voice)
            THEN char.voice
            ELSE Str(voiceList[RandomIndex(r, Len(voiceList)) + 1])

getValidVoice_AlwaysDraws(char, takenVoice, r) ==
    LET voiceList == IF char.gender = Str("female") THEN femaleVoices
                                                    ELSE maleVoices
        available == SelectSeq(voiceList, LAMBDA v : Str(v) # takenVoice)
    IN  Str(available[RandomIndex(r, Len(available)) + 1])

\* getValidVoice(char, takenVoice), for the draw r of Math.random()
getValidVoice(char, takenVoice, r) ==
    LET voiceList == IF char.gender = Str("female") THEN femaleVoices
                                                    ELSE maleVoices
        available == SelectSeq(voiceList, LAMBDA v : Str(v) # takenVoice)
    IN  IF Has(voiceList, char.voice) /\ char.voice # takenVoice
            THEN char.voice
        ELSE IF Len(available) > 0
            THEN Str(available[RandomIndex(r, Len(available)) + 1])
        ELSE Str(voiceList[RandomIndex(r, Len(voiceList)) + 1])

TypeError(message) == Err(0, 0, message)

\* Steps 1 and 2 of the normalization, for the draws r1 and r2: the two
\* characters, or the TypeError of reading a property of null.
NormalCharacters(data, r1, r2) ==
    LET two == TwoCharacters(data)
    IN  IF \E i \in 1..2 : two[i].kind # "object"
            THEN Fail(TypeError("Cannot read properties of null (reading 'name')"))
        ELSE LET cs == Disambiguate(<<Sanitize(two[1]), Sanitize(two[2])>>)
                 v1 == getValidVoice(cs[1], Undefined, r1)
                 v2 == getValidVoice(cs[2], v1, r2)
             IN  Ok(<<[cs[1] EXCEPT !.voice = v1], [cs[2] EXCEPT !.voice = v2]>>)

---------------------------------------------------------------------------
(* The normalization of researchLocationAndDate: the speakers of the script. *)

\* A line of data.script that is an object.
RawLine(speaker) == [kind |-> "object", speaker |-> speaker]

ScriptLines(data) ==
    IF data.script.kind = "array" THEN data.script.items ELSE <<>>

\* line.speaker after `if (!line.speaker) line.speaker = "Unknown"` and
\* String(line.speaker).trim()
CleanSpeaker(line) ==
    Trim(ToStr(IF Truthy(line.speaker) THEN line.speaker ELSE Str("Unknown")))

CleanSpeakers(lines) == [i \in 1..Len(lines) |-> CleanSpeaker(lines[i])]

\* The properties an object literal {} inherits, among the strings of the
\* model, and the value of one: speakerCounts[k] and speakerMap[k] read it
\* where k is no own property.
ProtoKeys == {"constructor"}
Inherited == [kind |-> "function", name |-> "Object"]

Digits == "0123456789"
IsDigit(c) == \E k \in 1..Len(Digits) : Ch(Digits, k) = c
DigitOf(c) == (CHOOSE k \in 1..Len(Digits) : Ch(Digits, k) = c) - 1

\* k is an array index: Object.keys lists these first, in ascending order.
IsIndexKey(k) ==
    /\ Len(k) > 0
    /\ \A i \in 1..Len(k) : IsDigit(Ch(k, i))
    /\ Len(k) = 1 \/ Ch(k, 1) # "0"

RECURSIVE NumberFrom(_, _)
NumberFrom(k, n) ==
    IF n = 0 THEN 0 ELSE NumberFrom(k, n - 1) * 10 + DigitOf(Ch(k, n))

NumberOf(k) == NumberFrom(k, Len(k))

KeysOf(speakers) == {speakers[i] : i \in 1..Len(speakers)}

FirstSeen(speakers, k) ==
    CHOOSE i \in 1..Len(speakers) :
        speakers[i] = k /\ \A j \in 1..(i - 1) : speakers[j] # k

Orders(keys) ==
    {o \in [1..Cardinality(keys) -> keys] :
        \A i, j \in 1..Cardinality(keys) : i # j => o[i] # o[j]}

\* a comes before b in Object.keys(speakerCounts)
KeyBefore(speakers, a, b) ==
    IF IsIndexKey(a) /\ IsIndexKey(b) THEN NumberOf(a) < NumberOf(b)
    ELSE IF IsIndexKey(a) # IsIndexKey(b) THEN IsIndexKey(a)
    ELSE FirstSeen(speakers, a) < FirstSeen(speakers, b)

\* Object.keys(speakerCounts)
ObjectKeys(speakers) ==
    CHOOSE o \in Orders(KeysOf(speakers)) :
        \A i, j \in 1..Len(o) : i < j => KeyBefore(speakers, o[i], o[j])

\* speakerCounts[k] is a number: for an inherited k it is the function with
\* "1" appended, and a difference with it is NaN.
IsCounted(k) == k \notin ProtoKeys

LineCount(speakers, k) == Cardinality({i \in 1..Len(speakers) : speakers[i] = k})

\* The comparator of the sort puts a before b, puts b before a, or neither
\* (a difference of 0, or NaN).
SortsBefore(speakers, a, b) ==
    IsCounted(a) /\ IsCounted(b) /\ LineCount(speakers, a) > LineCount(speakers, b)

\* The comparator is consistent: where a key has no number, every pair
\* compares as equal only if all the numbers are the same.
Consistent(speakers) ==
    \/ \A k \in KeysOf(speakers) : IsCounted(k)
    \/ \A a, b \in KeysOf(speakers) : ~SortsBefore(speakers, a, b)

\* The orders scriptSpeakers may have: the stable sort by descending count
\* of Object.keys, or, with a comparator that is not consistent, any order.
SortedSpeakers(speakers) ==
    IF Consistent(speakers)
        THEN LET keys == ObjectKeys(speakers)
                 place(k) == CHOOSE i \in 1..Len(keys) : keys[i] = k
             IN  {o \in Orders(KeysOf(speakers)) :
                    \A i, j \in 1..Len(o) :
                        i < j => /\ ~SortsBefore(speakers, o[j], o[i])
                                 /\ SortsBefore(speakers, o[i], o[j])
                                       \/ place(o[i]) < place(o[j])}
        ELSE Orders(KeysOf(speakers))

\* The fuzzy match of the raw speaker s with a character's name.
FuzzyMatch(s, name) ==
    \/ s = name
    \/ Includes(ToLowerCase(name), ToLowerCase(s))
    \/ Includes(ToLowerCase(s), ToLowerCase(name))

\* speakerMap[k]: the own property, or the inherited one.
Lookup(map, k) ==
    IF map[k] # Undefined THEN map[k]
    ELSE IF k \in ProtoKeys THEN Inherited
    ELSE Undefined

\* Object.values(speakerMap).includes(name)
IsUsed(map, name) == \E k \in DOMAIN map : map[k] = name

\* speakerMap after the fuzzy matching of every raw speaker.
Matched(keys, c1, c2) ==
    [k \in keys |-> IF FuzzyMatch(k, c1.name.s) THEN c1.name
                    ELSE IF FuzzyMatch(k, c2.name.s) THEN c2.name
                    ELSE Undefined]

\* unmapped[i] is truthy: there is such an entry and it is not "".
HasEntry(unmapped, i) == i <= Len(unmapped) /\ unmapped[i] # ""

\* speakerMap when the script is rewritten, for scriptSpeakers = order.
SpeakerMap(order, c1, c2) ==
    LET map0 == Matched({order[i] : i \in 1..Len(order)}, c1, c2)
        unmapped == SelectSeq(order, LAMBDA k : ~Truthy(Lookup(map0, k)))
        first == ~IsUsed(map0, c1.name) /\ HasEntry(unmapped, 1)
        map1 == IF first THEN [map0 EXCEPT ![unmapped[1]] = c1.name] ELSE map0
        n1 == IF first THEN 1 ELSE 0
        second == ~IsUsed(map1, c2.name) /\ HasEntry(unmapped, n1 + 1)
        map2 == IF second THEN [map1 EXCEPT ![unmapped[n1 + 1]] = c2.name] ELSE map1
        n2 == IF second THEN n1 + 1 ELSE n1
    IN  [k \in DOMAIN map0 |->
            IF \E j \in (n2 + 1)..Len(unmapped) : unmapped[j] = k
                THEN c1.name ELSE map2[k]]

\* "Apply mapping to script", for one line
Rewritten(map, speaker, c1) ==
    RawLine(IF Truthy(Lookup(map, speaker)) THEN Lookup(map, speaker)
                                            ELSE c1.name)

\* The orders of scriptSpeakers the payload allows.
SpeakerOrders(data) ==
    IF \E i \in 1..Len(ScriptLines(data)) : ScriptLines(data)[i].kind # "object"
        THEN {<<>>}
        ELSE SortedSpeakers(CleanSpeakers(ScriptLines(data)))

\* Steps 3 of the normalization, for the characters cs that steps 1 and 2
\* gave and scriptSpeakers = order: the characters and the script returned,
\* or the TypeError thrown.
NormalScript(cs, data, order) ==
    LET lines == ScriptLines(data)
    IN  IF ~cs.ok THEN cs
        ELSE IF \E i \in 1..Len(lines) : lines[i].kind # "object"
            THEN Fail(TypeError("Cannot read properties of null (reading 'speaker')"))
        ELSE LET speakers == CleanSpeakers(lines)
                 map == SpeakerMap(order, cs.val[1], cs.val[2])
             IN  Ok([characters |-> cs.val,
                     script |-> [i \in 1..Len(lines) |->
                                   Rewritten(map, speakers[i], cs.val[1])]])

\* The results the normalization of the payload data may have, over the
\* draws of Math.random() and the orders of scriptSpeakers.
Normalized(data) ==
    {NormalScript(cs, data, order) :
        cs \in {NormalCharacters(data, r1, r2) : r1 \in RandomDraws, r2 \in RandomDraws},
        order \in SpeakerOrders(data)}

---------------------------------------------------------------------------
(* The normalization alone: every payload of the families below is         *)
(* normalized, and what the normalization returned is normalized again.    *)

MaxChars == 3
MaxLines == 3

\* JSON.parse(jsonStr), as far as the normalization reads it.
Payload(characters, script) == [characters |-> characters, script |-> script]

RawNames ==
    {Str(""), Str(" Ana "), Str("ana"), Str("Ana Maria"), Str("Luis"), Undefined}

RawGenders == {Str("male"), Str("female"), Str("robot"), Undefined}

RawVoices ==
    {Str("Puck"), Str("Zephyr"), Str("Kore"), Str("Aoede"), Str("Nova"), Undefined}

RawSpeakers ==
    {Str("Ana"), Str("an"), Str(" Luis"), Str("Narrator"), Str("constructor"),
     Str("7"), Str(" "), Undefined}

NamePairs == {<<"Ana", "Luis">>, <<"Ana", "Ana Maria">>}

PlainScript == Arr(<<RawLine(Str("Ana")), RawLine(Str("Luis"))>>)

\* Payloads that vary the characters array and the names in it.
NamePayloads ==
    {Payload(c, PlainScript) :
        c \in {Undefined, Str("none")}
              \cup {Arr(cs) : cs \in SeqsUpTo({Entry(n, Str("male"), Str("Puck")) :
                                                 n \in RawNames} \cup {Null},
                                              MaxChars)}}

\* Payloads that vary the genders and the voices of two characters.
VoicePayloads ==
    {Payload(Arr(<<Entry(Str("Ana"), g1, v1), Entry(Str("Luis"), g2, v2)>>),
             PlainScript) :
        g1 \in RawGenders, v1 \in RawVoices, g2 \in RawGenders, v2 \in RawVoices}

\* Payloads that vary the script.
ScriptPayloads ==
    {Payload(Arr(<<Entry(Str(p[1]), Str("female"), Str("Kore")),
                   Entry(Str(p[2]), Str("male"), Str("Puck"))>>), sc) :
        p \in NamePairs,
        sc \in {Undefined}
               \cup {Arr(ls) : ls \in SeqsUpTo({RawLine(sp) : sp \in RawSpeakers}
                                                 \cup {Null}, MaxLines)}}

Payloads == NamePayloads \cup VoicePayloads \cup ScriptPayloads

\* What the normalization returned, as the payload of another run.
AsPayload(out) == Payload(Arr(out.characters), Arr(out.script))

InitNorm ==
    /\ nz \in {[raw |-> d, out |-> Null, again |-> Null] : d \in Payloads}
    /\ sm = Null
    /\ xj = Null
    /\ rs = Null
    /\ ga = Null
    /\ InitSession
    /\ rtArgs = [retries |-> MAX_RETRIES, delay |-> INITIAL_DELAY_MS]
    /\ rt = RetryStart(rtArgs.retries, rtArgs.delay)
    /\ opLog = <<>>

Normalizes ==
    /\ nz.out = Null
    /\ \E out \in Normalized(nz.raw) : nz' = [nz EXCEPT !.out = out]
    /\ UNCHANGED <<sessionVars, retryVars, rs, ga, sm, xj>>

Renormalizes ==
    /\ nz.out # Null
    /\ nz.out.ok
    /\ nz.again = Null
    /\ \E out \in Normalized(AsPayload(nz.out.val)) :
            nz' = [nz EXCEPT !.again = out]
    /\ UNCHANGED <<sessionVars, retryVars, rs, ga, sm, xj>>

NextNorm == Normalizes \/ Renormalizes

SpecNorm == InitNorm /\ [][NextNorm]_vars

---------------------------------------------------------------------------
(* The normalization: its claims. *)

\* The normalization has returned a scenario.
Returned == nz.out # Null /\ nz.out.ok

\* C16: for any raw payload (characters missing, not a sequence, or a
\* sequence of 0, 1, 2 or more entries, with any names) the normalization
\* returns exactly two characters whose names are both non-empty and differ
\* from each other.
C16_TwoNamedCharacters ==
    Returned =>
        LET cs == nz.out.val.characters
        IN  /\ Len(cs) = 2
            /\ cs[1].name.s # ""
            /\ cs[2].name.s # ""
            /\ cs[1].name # cs[2].name

\* The voice set of the gender the normalization resolved for c.
VoiceSet(c) ==
    IF c.gender = Str("female") THEN femaleVoices
    ELSE IF c.gender = Str("male") THEN maleVoices
    ELSE <<>>

\* C17: after normalization each of the two characters has a voice of its
\* resolved gender's voice set, and the two voices differ, for every stated
\* voice and gender and every outcome of the random choice.
C17_VoicesValidAndDistinct ==
    Returned =>
        LET cs == nz.out.val.characters
        IN  /\ \A i \in 1..2 : Has(VoiceSet(cs[i]), cs[i].voice)
            /\ cs[1].voice # cs[2].voice

\* Two characters of one gender stated the same valid voice, and the second
\* was given another voice of the set.
C17_Witness ==
    /\ Returned
    /\ nz.raw.characters.kind = "array"
    /\ LET raw == nz.raw.characters.items
           cs == nz.out.val.characters
       IN  /\ Len(raw) = 2
           /\ raw[1].gender = Str("female") /\ raw[2].gender = Str("female")
           /\ raw[1].voice = Str("Kore") /\ raw[2].voice = Str("Kore")
           /\ cs[1].voice = Str("Kore") /\ cs[2].voice = Str("Aoede")

\* Every line of the scenario sc names one of its two characters.
SpeakersNamed(sc) ==
    \A i \in 1..Len(sc.script) :
        sc.script[i].speaker \in {sc.characters[1].name, sc.characters[2].name}

\* The normalization has been run again, on what it returned.
Rerun == Returned /\ nz.again # Null

\* C18: the normalization is idempotent on its own output: for a normalized
\* scenario in which every line's speaker is one of the two final character
\* names, running the normalization again leaves the characters (names,
\* genders, voices) and every line's speaker unchanged.
C18_Idempotent ==
    (Rerun /\ SpeakersNamed(nz.out.val)) => nz.again = nz.out

\* C19: after normalization, for every script and every pair of raw
\* character names, the speaker of every line equals exactly one of the two
\* normalized character names.
C19_SpeakersAreCharacters ==
    Returned =>
        /\ SpeakersNamed(nz.out.val)
        /\ nz.out.val.characters[1].name # nz.out.val.characters[2].name

\* The distinct raw speakers of the payload, after the defaulting and the
\* trimming of step 7.
RawSpeakerKeys == KeysOf(CleanSpeakers(ScriptLines(nz.raw)))

\* Character i of the scenario returned has a line.
HasLine(i) ==
    \E k \in 1..Len(nz.out.val.script) :
        nz.out.val.script[k].speaker = nz.out.val.characters[i].name

\* C20: whenever the raw script holds at least two distinct raw speakers,
\* the normalized script holds at least one line of character 1 and at least
\* one line of character 2.
C20_BothCharactersSpeak ==
    (Returned /\ Cardinality(RawSpeakerKeys) >= 2) => HasLine(1) /\ HasLine(2)

\* The raw speakers of the lines, after the defaulting and the trimming.
RawSpeakerOf(i) == CleanSpeakers(ScriptLines(nz.raw))[i]

\* No raw speaker fuzzy-matches a name of the two characters returned.
NoneMatches ==
    \A k \in RawSpeakerKeys, i \in 1..2 :
        ~FuzzyMatch(k, nz.out.val.characters[i].name.s)

\* C21: for a script with at least two distinct raw speakers none of which
\* fuzzy-matches either character name, the first unmatched speaker in
\* frequency order is mapped to character 1, the second to character 2 and
\* the third and later ones to character 1, so each character has a line.
C21_UnmatchedAssignedInOrder ==
    (Returned /\ Cardinality(RawSpeakerKeys) >= 2 /\ NoneMatches) =>
        /\ \E order \in SpeakerOrders(nz.raw) :
              \A i \in 1..Len(nz.out.val.script) :
                  nz.out.val.script[i].speaker =
                      IF RawSpeakerOf(i) = order[2]
                          THEN nz.out.val.characters[2].name
                          ELSE nz.out.val.characters[1].name
        /\ HasLine(1)
        /\ HasLine(2)

\* The normalization has ended, with a scenario or with an error.
Ended == nz.out # Null

\* C22: the normalization steps never fail: for any payload shape (absent
\* or non-sequence characters or script, entries that are null, missing
\* names, speakers, genders or voices) they complete without raising and
\* give a scenario with two characters and a script sequence.
C22_NeverFails ==
    Ended => /\ nz.out.ok
             /\ Len(nz.out.val.characters) = 2
             /\ Len(nz.out.val.script) = Len(ScriptLines(nz.raw))

\* The distinct raw speakers by descending line count, those of one count
\* in the order of their first lines.
ByCountThenFirstSeen(speakers) ==
    CHOOSE o \in Orders(KeysOf(speakers)) :
        \A i, j \in 1..Len(o) :
            i < j => \/ LineCount(speakers, o[i]) > LineCount(speakers, o[j])
                     \/ /\ LineCount(speakers, o[i]) = LineCount(speakers, o[j])
                        /\ FirstSeen(speakers, o[i]) < FirstSeen(speakers, o[j])

\* C29: the distinct raw speakers are resolved in the order of descending
\* line count, ties broken by first-seen order in the script: the scenario
\* returned is the one this order gives, so the unmatched speaker given to
\* character 1 is the most frequent one, and for the raw speakers Ana, Ana,
\* Luis and the characters Ana and Luis every line resolves to the character
\* it names.
C29_ResolvedByFrequency ==
    Returned =>
        nz.out = NormalScript(Ok(nz.out.val.characters), nz.raw,
                              ByCountThenFirstSeen(CleanSpeakers(ScriptLines(nz.raw))))

\* The voice character i states is a voice of its resolved gender's set.
StatedVoice(i) == TwoCharacters(nz.raw)[i].voice
StatesValidVoice(i) == Has(VoiceSet(nz.out.val.characters[i]), StatedVoice(i))

\* C30: a character keeps its stated voice whenever that voice is in its
\* resolved gender's set and differs from the voice already given to the
\* other character: character 1 keeps every valid stated voice, character 2
\* keeps one unless it is character 1's resolved voice, and a replacement
\* is chosen only otherwise.
C30_ValidVoiceKept ==
    Returned =>
        LET cs == nz.out.val.characters
        IN  /\ StatesValidVoice(1) <=> cs[1].voice = StatedVoice(1)
            /\ (StatesValidVoice(2) /\ StatedVoice(2) # cs[1].voice)
                   <=> cs[2].voice = StatedVoice(2)

\* Both characters kept the voices they stated, the second with a gender
\* that was resolved to male.
C30_Witness ==
    /\ Returned
    /\ nz.raw.characters.kind = "array"
    /\ Len(nz.raw.characters.items) = 2
    /\ TwoCharacters(nz.raw)[2].gender = Str("robot")
    /\ StatedVoice(1) = Str("Puck") /\ StatedVoice(2) = Str("Zephyr")
    /\ nz.out.val.characters[1].voice = Str("Puck")
    /\ nz.out.val.characters[2].voice = Str("Zephyr")


---------------------------------------------------------------------------
(* researchLocationAndDate: the sources, collected from the grounding     *)
(* chunks of the response and attached to what is returned.               *)

\* The largest number of grounding chunks of a response.
MaxChunks == 3

Letters == UpperLetters \cup {Ch(LowerCase, k) : k \in 1..Len(LowerCase)}

\* The place of the first character of s, from place i on, that is in cs;
\* Len(s) + 1 where there is none.
FirstOf(s, cs, i) ==
    LET at == {k \in i..Len(s) : Ch(s, k) \in cs}
    IN  IF at = {} THEN Len(s) + 1
        ELSE CHOOSE k \in at : \A j \in at : k <= j

\* The place of the ":" that ends the scheme of uri, or 0: a URI with no
\* scheme is not absolute, and new URL(uri) throws on it.
SchemeEnd(uri) ==
    LET c == FirstOf(uri, {":"}, 1)
    IN  IF c > 1 /\ c <= Len(uri) /\ \A k \in 1..(c - 1) : Ch(uri, k) \in Letters
        THEN c ELSE 0

\* The host of an http(s) URI as the URL parser reads it: after the scheme
\* and its slashes, up to the path, query or fragment, less the user
\* information and the port, in lower case.
HostOf(uri) ==
    LET c == SchemeEnd(uri)
        slashes == {k \in (c + 1)..Len(uri) :
                        \A j \in (c + 1)..k : Ch(uri, j) \in {"/", "\\"}}
        a == c + 1 + Cardinality(slashes)
        e == FirstOf(uri, {"/", "\\", "?", "#"}, a)
        authority == SubSeq(uri, a, e - 1)
        ats == {k \in 1..Len(authority) : Ch(authority, k) = "@"}
        h == IF ats = {} THEN 1
             ELSE 1 + CHOOSE k \in ats : \A j \in ats : j <= k
        host == SubSeq(authority, h, Len(authority))
        p == FirstOf(host, {":"}, 1)
    IN  ToLowerCase(SubSeq(host, 1, p - 1))

\* new URL(uri).hostname: the host name, or the TypeError of the constructor.
Hostname(uri) ==
    IF SchemeEnd(uri) = 0 \/ HostOf(uri) = ""
        THEN Fail(TypeError("Invalid URL"))
    ELSE Ok(HostOf(uri))

\* A grounding chunk with no web part, and one with a web part.
NoWeb == [web |-> Undefined]
Web(uri, title) == [web |-> [kind |-> "object", uri |-> uri, title |-> title]]

\* chunk.web?.uri
WebUri(chunk) == IF chunk.web.kind = "object" THEN chunk.web.uri ELSE Undefined

\* A map that never has the key: every chunk sets an entry.
MapHas_Never(sourcesMap, uri) == FALSE

\* sourcesMap.has(uri), the map being the sequence of its values in the
\* order they were set.
MapHas(sourcesMap, uri) == \E k \in 1..Len(sourcesMap) : sourcesMap[k].uri = uri

\* groundingChunks.forEach(...) from chunk i on, then
\* Array.from(sourcesMap.values()); or what the callback threw.
RECURSIVE SourcesFrom(_, _, _)
SourcesFrom(groundingChunks, i, sourcesMap) ==
    IF i > Len(groundingChunks) THEN Ok(sourcesMap)
    ELSE LET chunk == groundingChunks[i]
         IN  IF ~Truthy(WebUri(chunk))
                 THEN SourcesFrom(groundingChunks, i + 1, sourcesMap)
             ELSE LET uri == chunk.web.uri.s
                      title == IF Truthy(chunk.web.title)
                                   THEN Ok(chunk.web.title.s)
                               ELSE Hostname(uri)
                  IN  IF ~title.ok THEN title
                      ELSE SourcesFrom(groundingChunks, i + 1,
                             IF MapHas(sourcesMap, uri) THEN sourcesMap
                             ELSE Append(sourcesMap,
                                         [title |-> title.val, uri |-> uri]))

Sources(groundingChunks) == SourcesFrom(groundingChunks, 1, <<>>)

\* What the model's text was read as: nothing, or an object that has or has
\* not a property "sources" of its own.
NoData == Null
Data(sources) == [kind |-> "object", title |-> Str("Timbuktu"), sources |-> sources]

\* { ...data, sources }
WithSources(data, sources) == [data EXCEPT !.sources = Arr(sources)]

\* From the grounding chunks to the return of researchLocationAndDate, for
\* what extractJSON gave: the Scenario, or the error thrown on the way.
Researched(groundingChunks, data) ==
    LET sources == Sources(groundingChunks)
    IN  IF ~sources.ok THEN sources
        ELSE IF data = NoData THEN Fail(Err(0, 0, "Empty response from model."))
        ELSE Ok(WithSources(data, sources.val))

(* The collection run on its own, on any chunks up to the bound. *)

ChunkUris == {"https://a.org/x", "HTTPS://B.org:8080/", "b.org/y"}
ChunkTitles == {Str("A"), Str("B"), Undefined}

Chunks ==
    {NoWeb, Web(Undefined, Str("A")), Web(Str(""), Str("A")),
     Web(Str("https://a.org/x"), Str(""))}
        \cup {Web(Str(u), t) : u \in ChunkUris, t \in ChunkTitles}

ParsedData ==
    {NoData, Data(Undefined),
     Data(Arr(<<[title |-> "Made up", uri |-> "https://m.org/"]>>))}

InitSources ==
    /\ sm \in {[chunks |-> c, data |-> d, out |-> Null] :
                    c \in SeqsUpTo(Chunks, MaxChunks), d \in ParsedData}
    /\ rs = Null
    /\ ga = Null
    /\ nz = Null
    /\ xj = Null
    /\ InitSession
    /\ rtArgs = [retries |-> MAX_RETRIES, delay |-> INITIAL_DELAY_MS]
    /\ rt = RetryStart(rtArgs.retries, rtArgs.delay)
    /\ opLog = <<>>

CollectsSources ==
    /\ sm.out = Null
    /\ sm' = [sm EXCEPT !.out = Researched(sm.chunks, sm.data)]
    /\ UNCHANGED <<sessionVars, retryVars, rs, ga, nz, xj>>

NextSources == CollectsSources

SpecSources == InitSources /\ [][NextSources]_vars

(* The sources: their claims. *)

\* The run returned a Scenario.
SourcesReturned == sm.out # Null /\ sm.out.ok

\* The places of the chunks that carry a web URI, and the first place of
\* each URI.
WebPlaces == {i \in 1..Len(sm.chunks) : Truthy(WebUri(sm.chunks[i]))}
UriAt(i) == sm.chunks[i].web.uri.s
FirstPlace(uri) ==
    CHOOSE i \in WebPlaces : UriAt(i) = uri /\ \A j \in WebPlaces : UriAt(j) = uri => i <= j

\* One entry per distinct web URI of the chunks, in the order the URIs first
\* occur.
OnePerUriInOrder ==
    LET sources == sm.out.val.sources.items
    IN  /\ {sources[k].uri : k \in 1..Len(sources)} = {UriAt(i) : i \in WebPlaces}
        /\ \A k, l \in 1..Len(sources) :
              k < l => FirstPlace(sources[k].uri) < FirstPlace(sources[l].uri)

\* C23 as stated: the sources of the returned Scenario are one entry per
\* distinct web URI of the grounding chunks, in the order of first
\* occurrence, each with the title of the first chunk of its URI.
C23_FirstSeenTitle ==
    SourcesReturned =>
        /\ OnePerUriInOrder
        /\ \A k \in 1..Len(sm.out.val.sources.items) :
              LET e == sm.out.val.sources.items[k]
              IN  Str(e.title) = sm.chunks[FirstPlace(e.uri)].web.title

\* C23: the sources of the returned Scenario are one entry per distinct web
\* URI of the grounding chunks, in the order of first occurrence, each with
\* the title of the first chunk of its URI or, where that chunk has no title
\* or an empty one, with the host name of the URI; a chunk with no web URI
\* gives no entry.
C23_FirstSeenTitleOrHost ==
    SourcesReturned =>
        /\ OnePerUriInOrder
        /\ \A k \in 1..Len(sm.out.val.sources.items) :
              LET e == sm.out.val.sources.items[k]
                  first == sm.chunks[FirstPlace(e.uri)].web.title
              IN  IF Truthy(first) THEN e.title = first.s
                  ELSE e.title = HostOf(e.uri)

\* A Scenario whose chunks repeat a URI: first with no title, then with one,
\* between chunks that carry no URI.
C23_Witness ==
    /\ SourcesReturned
    /\ Len(sm.chunks) = MaxChunks
    /\ sm.chunks[1] = NoWeb
    /\ sm.chunks[2] = Web(Str("HTTPS://B.org:8080/"), Undefined)
    /\ sm.chunks[3] = Web(Str("HTTPS://B.org:8080/"), Str("B"))
    /\ sm.out.val.sources.items = <<[title |-> "b.org", uri |-> "HTTPS://B.org:8080/"]>>


---------------------------------------------------------------------------
(* extractJSON: the object in the text of the response.                   *)

\* The characters from U+0000 to U+001F that a string of the model holds.
Control == {"\t", "\n", "\f", "\r"}

\* The white space of the JSON grammar.
JSONSpace == {" ", "\t", "\n", "\r"}

\* The three grave accents of a code fence. A grave accent is written ^ in
\* the strings of the model.
Fence == "^^^"

\* s holds lit at place i.
At(s, i, lit) ==
    /\ i >= 1
    /\ i + Len(lit) - 1 <= Len(s)
    /\ SubSeq(s, i, i + Len(lit) - 1) = lit

\* s.replace(/pat/gi, '') where pat is literal and in lower case: s from
\* place i on, less every occurrence of pat, the leftmost first.
RECURSIVE RemoveFrom(_, _, _)
RemoveFrom(s, pat, i) ==
    IF i > Len(s) THEN ""
    ELSE IF i + Len(pat) - 1 <= Len(s)
              /\ ToLowerCase(SubSeq(s, i, i + Len(pat) - 1)) = pat
        THEN RemoveFrom(s, pat, i + Len(pat))
    ELSE Ch(s, i) \o RemoveFrom(s, pat, i + 1)

\* jsonString.replace(/```json/gi, '').replace(/```/g, '')
Unfenced(jsonString) ==
    RemoveFrom(RemoveFrom(jsonString, Fence \o "json", 1), Fence, 1)

\* jsonString.replace(/[\u0000-\u001F]+/g, "")
RECURSIVE CleanedFrom(_, _)
CleanedFrom(s, i) ==
    IF i > Len(s) THEN ""
    ELSE (IF Ch(s, i) \in Control THEN "" ELSE Ch(s, i)) \o CleanedFrom(s, i + 1)

Cleaned(jsonString) == CleanedFrom(jsonString, 1)

\* s.indexOf(c) and s.lastIndexOf(c), counted from 1: 0 is the -1 of the code.
IndexOf(s, c) ==
    LET at == {k \in 1..Len(s) : Ch(s, k) = c}
    IN  IF at = {} THEN 0 ELSE CHOOSE k \in at : \A j \in at : k <= j

LastIndexOf(s, c) ==
    LET at == {k \in 1..Len(s) : Ch(s, k) = c}
    IN  IF at = {} THEN 0 ELSE CHOOSE k \in at : \A j \in at : j <= k

(* JSON.parse, on the grammar of the texts of the model: objects, arrays, *)
(* strings with the one-letter escapes, true, false and null. A value is  *)
(* read from a place of the string; what is read gives the value and the  *)
(* place after it.                                                        *)

NoParse == [ok |-> FALSE]
Parsed(v, next) == [ok |-> TRUE, val |-> v, next |-> next]

Bool(b) == [kind |-> "boolean", b |-> b]
\* An object, by its properties in the order they were first set.
Obj(props) == [kind |-> "object", props |-> props]

\* The first place of s from i on that holds no white space.
SkipSpace(s, i) ==
    LET at == {k \in i..Len(s) : Ch(s, k) \notin JSONSpace}
    IN  IF at = {} THEN Len(s) + 1
        ELSE CHOOSE k \in at : \A j \in at : k <= j

\* The character an escape letter stands for, "" for a letter that is none
\* (the escapes b and u are not in the texts of the model).
Unescaped(c) ==
    IF c \in {"\"", "\\", "/"} THEN c
    ELSE IF c = "n" THEN "\n"
    ELSE IF c = "t" THEN "\t"
    ELSE IF c = "r" THEN "\r"
    ELSE IF c = "f" THEN "\f"
    ELSE ""

\* props with key set to v: in place where the object has the key.
SetProp(props, key, v) ==
    IF \E k \in 1..Len(props) : props[k].key = key
        THEN [k \in 1..Len(props) |->
                 IF props[k].key = key THEN [key |-> key, val |-> v] ELSE props[k]]
    ELSE Append(props, [key |-> key, val |-> v])

\* The rest of a string literal from place j, after the characters acc: a
\* control character in it, or its end missing, is a syntax error.
RECURSIVE StringFrom(_, _, _)
StringFrom(s, j, acc) ==
    IF j > Len(s) THEN NoParse
    ELSE IF Ch(s, j) = "\"" THEN Parsed(acc, j + 1)
    ELSE IF Ch(s, j) \in Control THEN NoParse
    ELSE IF Ch(s, j) = "\\"
        THEN IF j + 1 <= Len(s) /\ Unescaped(Ch(s, j + 1)) # ""
                 THEN StringFrom(s, j + 2, acc \o Unescaped(Ch(s, j + 1)))
             ELSE NoParse
    ELSE StringFrom(s, j + 1, acc \o Ch(s, j))

RECURSIVE ParseValue(_, _)
RECURSIVE ParseMembers(_, _, _)
RECURSIVE ParseElements(_, _, _)

\* The members of an object from place i, where one is due, after props.
ParseMembers(s, i, props) ==
    LET k == SkipSpace(s, i)
        key == StringFrom(s, k + 1, "")
        c == SkipSpace(s, key.next)
        v == ParseValue(s, c + 1)
        d == SkipSpace(s, v.next)
    IN  IF ~At(s, k, "\"") THEN NoParse
        ELSE IF ~key.ok THEN NoParse
        ELSE IF ~At(s, c, ":") THEN NoParse
        ELSE IF ~v.ok THEN NoParse
        ELSE IF At(s, d, ",")
            THEN ParseMembers(s, d + 1, SetProp(props, key.val, v.val))
        ELSE IF At(s, d, "}")
            THEN Parsed(Obj(SetProp(props, key.val, v.val)), d + 1)
        ELSE NoParse

\* The elements of an array from place i, where one is due, after items.
ParseElements(s, i, items) ==
    LET v == ParseValue(s, i)
        d == SkipSpace(s, v.next)
    IN  IF ~v.ok THEN NoParse
        ELSE IF At(s, d, ",") THEN ParseElements(s, d + 1, Append(items, v.val))
        ELSE IF At(s, d, "]") THEN Parsed(Arr(Append(items, v.val)), d + 1)
        ELSE NoParse

ParseValue(s, i) ==
    LET a == SkipSpace(s, i)
        b == SkipSpace(s, a + 1)
        str == StringFrom(s, a + 1, "")
    IN  IF At(s, a, "{")
            THEN IF At(s, b, "}") THEN Parsed(Obj(<<>>), b + 1)
                 ELSE ParseMembers(s, b, <<>>)
        ELSE IF At(s, a, "[")
            THEN IF At(s, b, "]") THEN Parsed(Arr(<<>>), b + 1)
                 ELSE ParseElements(s, b, <<>>)
        ELSE IF At(s, a, "\"")
            THEN IF str.ok THEN Parsed(Str(str.val), str.next) ELSE NoParse
        ELSE IF At(s, a, "true") THEN Parsed(Bool(TRUE), a + 4)
        ELSE IF At(s, a, "false") THEN Parsed(Bool(FALSE), a + 5)
        ELSE IF At(s, a, "null") THEN Parsed(Null, a + 4)
        ELSE NoParse

\* JSON.parse(s): the value, when s is one value and white space; else the
\* SyntaxError.
JSONParse(s) ==
    LET v == ParseValue(s, 1)
    IN  IF v.ok /\ SkipSpace(s, v.next) > Len(s) THEN Ok(v.val)
        ELSE Fail(Err(0, 0, "SyntaxError"))

\* !text
NoText_OrBlank(text) == Trim(text) = ""
NoText(text) == text = ""

\* What a call of extractJSON ends with, and the strings it gave to
\* JSON.parse on the way, in order.
Extracted(ret, parses) == [ret |-> ret, parses |-> parses]

extractJSON(text) ==
    LET jsonString == Unfenced(Trim(text))
        firstOpen == IndexOf(jsonString, "{")
        lastClose == LastIndexOf(jsonString, "}")
        span == SubSeq(jsonString, firstOpen, lastClose)
        cleaned == Cleaned(span)
    IN  IF NoText(text) THEN Extracted(Ok(Null), <<>>)
        ELSE IF firstOpen # 0 /\ lastClose # 0 /\ lastClose > firstOpen
            THEN IF JSONParse(span).ok
                     THEN Extracted(JSONParse(span), <<span>>)
                 ELSE IF JSONParse(cleaned).ok
                     THEN Extracted(JSONParse(cleaned), <<span, cleaned>>)
                 ELSE Extracted(Fail(Err(0, 0, "Model returned invalid JSON format.")),
                                <<span, cleaned>>)
        ELSE Extracted(Fail(Err(0, 0, "No JSON object found in response.")), <<>>)

(* extractJSON run on its own, on texts made of a few pieces and on some  *)
(* whole responses.                                                       *)

\* The largest number of pieces of a made text.
MaxPieces == 4

Pieces == {"{", "}", "\"a\":", "\"b\"", "\"b\nc\"", "^^^json", "\n"}

RECURSIVE Joined(_)
Joined(ps) == IF ps = <<>> THEN "" ELSE Head(ps) \o Joined(Tail(ps))

Responses ==
    { "Here is the scene:\n^^^json\n{\"a\": \"b\", \"c\": [\"d\", true, null]}\n^^^\nEnjoy!",
      "{\"a\": {\"b\": \"c\"}}",
      "{\"a\": \"b\",}",
      "{\"a\": \"b\", \"a\": \"c\t\"}",
      "{\"a\": \"b\"} and {\"c\": \"d\"}",
      "^^^JSON{\"a\": \"x\\ny\"}^^^",
      "^^^^^^json^{ }",
      "no object here",
      "} then {" }

Texts == {Joined(ps) : ps \in SeqsUpTo(Pieces, MaxPieces)} \cup Responses

InitExtract ==
    /\ xj \in {[text |-> t, out |-> Null] : t \in Texts}
    /\ rs = Null
    /\ ga = Null
    /\ nz = Null
    /\ sm = Null
    /\ InitSession
    /\ rtArgs = [retries |-> MAX_RETRIES, delay |-> INITIAL_DELAY_MS]
    /\ rt = RetryStart(rtArgs.retries, rtArgs.delay)
    /\ opLog = <<>>

Extracts ==
    /\ xj.out = Null
    /\ xj' = [xj EXCEPT !.out = extractJSON(xj.text)]
    /\ UNCHANGED <<sessionVars, retryVars, rs, ga, nz, sm>>

NextExtract == Extracts

SpecExtract == InitExtract /\ [][NextExtract]_vars

(* extractJSON: its claims. *)

ExtractDone == xj.out # Null

\* The text has a "{" with a "}" somewhere after it.
HasBracePair ==
    \E i, j \in 1..Len(xj.text) :
        i < j /\ Ch(xj.text, i) = "{" /\ Ch(xj.text, j) = "}"

MalformedResponse ==
    {Err(0, 0, "No JSON object found in response."),
     Err(0, 0, "Model returned invalid JSON format.")}

\* At most two strings were parsed, the second after the first failed to
\* parse and being the first less its control characters; what is returned
\* is what the last of them parses to.
ParsesTwiceAtMost ==
    LET parses == xj.out.parses
    IN  /\ Len(parses) \in {1, 2}
        /\ Len(parses) = 2 =>
              /\ ~JSONParse(parses[1]).ok
              /\ Len(parses[2]) <= Len(parses[1])
              /\ \A k \in 1..Len(parses[2]) : Ch(parses[2], k) \notin Control
              /\ parses[2] = Cleaned(parses[1])
        /\ xj.out.ret.ok => xj.out.ret = JSONParse(parses[Len(parses)])

\* C24 as stated: on a text with no "{" followed by a "}", the empty text
\* among them, extractJSON throws a MalformedResponse error and returns
\* nothing; on a text with such a pair it parses at most twice.
C24_NoPairAlwaysFails ==
    ExtractDone =>
        /\ ~HasBracePair => /\ ~xj.out.ret.ok
                            /\ xj.out.ret.val \in MalformedResponse
        /\ HasBracePair => ParsesTwiceAtMost

\* C24: on a text that is not empty and has no "{" followed by a "}",
\* extractJSON throws a MalformedResponse error and returns nothing; on the
\* empty text it returns null; on a text with such a pair it parses at most
\* twice, the second time only after the first parse failed and only what
\* it parsed first less its control characters.
C24_NoPairFailsUnlessEmpty ==
    ExtractDone =>
        /\ (~HasBracePair /\ xj.text # "") =>
                /\ ~xj.out.ret.ok
                /\ xj.out.ret.val \in MalformedResponse
                /\ xj.out.parses = <<>>
        /\ xj.text = "" => xj.out = Extracted(Ok(Null), <<>>)
        /\ HasBracePair => ParsesTwiceAtMost

\* A text whose object has a line break inside a string: the second parse
\* gave the object, the break taken out.
C24_Witness ==
    /\ ExtractDone
    /\ xj.text = "{\"a\":\"b\nc\"}"
    /\ xj.out.parses = <<"{\"a\":\"b\nc\"}", "{\"a\":\"bc\"}">>
    /\ xj.out.ret = Ok(Obj(<<[key |-> "a", val |-> Str("bc")]>>))

====
